---- MODULE Spec2Model ----
(***************************************************************************)
(* Model of the room-based chat server's in-memory MessageRepository       *)
(* (utils/messageRepository.ts) and UserRepository (utils/users.ts).  The  *)
(* repositories run on the JavaScript event loop: a mutating call of the   *)
(* message repository runs synchronously up to `await                      *)
(* this.acquireLock()`, and its critical section (the try block) runs      *)
(* later as one uninterrupted continuation; the read operations and the    *)
(* user registry are synchronous.  Every action below is one such          *)
(* uninterrupted run of code.                                              *)
(***************************************************************************)
EXTENDS Integers, Sequences, FiniteSets, TLC

(* ------------------------------ bounds --------------------------------- *)
\* number of call slots (mutating calls that can be pending at once)
MaxCalls == 2
\* number of Message objects allocated between two clear() calls
MaxMsgs == 2
\* largest value of the millisecond clock Date.now()
MaxNow == 2
\* number of distinct suffixes Math.random() can yield in the model
MaxRand == 1
\* edits of one message, when every operation is in play (Spec)
MaxEdits == 1
\* read receipts of one id, when every operation is in play (Spec)
MaxReceipts == 1
\* edits of one message in the editing scenario (SpecEdits)
MaxChain == 3
\* read receipts of one id in the read-receipt scenario (SpecReceipts)
MaxBurst == 3
\* messages of the thread scenario (SpecThreads)
MaxThread == 3
\* suffixes Math.random() can yield in the thread and room scenarios
MaxSuffix == 3
\* pieces an input of the command parser is made of (SpecParser)
MaxPieces == 5
\* arguments of a command built by hand (SpecParser)
MaxArgs == 3
\* latest reading of Date.now() in a generated id (SpecIds)
MaxStamp == 12

Calls == 1..MaxCalls
\* requesters; every message is written by an Author
Users == {"alice", "bob"}
Authors == {"alice"}
\* texts of new messages, and texts installed by edits
Texts == {"a"}
NewTexts == {"b", "c"}
\* texts of the messages of a thread, and the keyword searched for
ThreadTexts == {"Hi", "yo"}
Keyword == "I"
Rooms == {"r1"}
\* rooms of the room scenario
TwoRooms == {"r1", "r2"}
\* connections (socket ids), usernames and roles of the user registry
SocketIds == {"s1", "s2"}
Names == {"Bob", "bob", "amy"}
Roles == {"user", "admin"}
\* the empty string: falsy in `!username`, `!text`, `!room`
Empty == ""
\* a falsy id argument: '' / undefined (`!messageId`, `parentId &&`)
NoId == <<>>
\* ids are the pairs (Date.now(), random suffix) generateId concatenates
IdUniverse == (1..MaxNow) \X (1..MaxRand)
\* text written by deleteMessage
Placeholder == "[Message deleted]"

VARIABLES
    messages,          \* Map<string, Message>: id -> reference into heap
    messagesByRoom,    \* Map<string, Set<string>>: room -> ids, in insertion order
    readReceiptCounts, \* Map<string, number>
    lock,              \* the boolean spin lock
    heap,              \* the Message objects created since the last clear()
    now,               \* Date.now()
    calls,             \* the pending mutating calls, one per slot
    ret,               \* how the call the last step completed ended ("none": it completed none)
    receipts,          \* history: values returned by incrementReadReceipt since clear()
    applied,           \* history: per object, its first text and the texts of the
                       \* edits that returned it, whether addMessage returned it,
                       \* and the object whose reply list it was appended to (0: none)
    sync,              \* the synchronous call the last step made (op "none": it made none)
    users,             \* UserRepository: Map<string, User>, socket id -> User
    usernameIndex,     \* UserRepository: Map<string, string>, lowercase username -> socket id
    rules,             \* ModerationRuleEngine: Map<string, ModerationRule>, in insertion order
    event,             \* the socket event the last step handled, and what it emitted
    continuations,     \* per call slot, the handler that awaits the call
    sanctioned         \* history: the lowercase usernames a /mute or /ban succeeded
                       \* on and that no unmute has been applied to since

vars == <<messages, messagesByRoom, readReceiptCounts, lock, heap, now, calls,
          ret, receipts, applied, sync, users, usernameIndex, rules, event,
          continuations, sanctioned>>

store == <<messages, messagesByRoom, readReceiptCounts, heap>>

registry == <<users, usernameIndex>>

(* ------------------------------ helpers -------------------------------- *)
\* record of a step that made no synchronous call
NoCall == [op |-> "none", arg |-> <<>>, value |-> <<>>, threw |-> FALSE]

\* record of a step that handled no socket event
NoEvent == [on |-> "none", socket |-> "", data |-> <<>>, emits |-> <<>>]

\* a step outside the server's handlers: it emits nothing
Offline ==
    /\ event' = NoEvent
    /\ UNCHANGED <<sanctioned, continuations>>

\* a step that returns nothing to a synchronous caller and leaves the user
\* registry and the moderation engine alone
Plain ==
    /\ sync' = NoCall
    /\ UNCHANGED <<registry, rules>>
    /\ Offline

\* a call slot no handler is waiting on
NoContinuation == [handler |-> "none", socket |-> "", room |-> "", warn |-> FALSE]

Idle == [pc |-> "idle", op |-> "none", id |-> NoId, text |-> Empty,
         username |-> Empty, room |-> Empty]

\* a new call takes the lowest free slot (slots only name pending calls)
FreeSlot(c) ==
    /\ calls[c].pc = "idle"
    /\ \A d \in Calls : d < c => calls[d].pc # "idle"

Pending(op) == {c \in Calls : calls[c].pc # "idle" /\ calls[c].op = op}

Range(s) == {s[i] : i \in 1..Len(s)}

Has(id) == id \in DOMAIN messages

Count(id) == IF id \in DOMAIN readReceiptCounts THEN readReceiptCounts[id] ELSE 0

NewMessage(id, username, text, room, parentId) ==
    [id |-> id, username |-> username, text |-> text, timestamp |-> now,
     room |-> room, edited |-> FALSE, editHistory |-> <<>>, deleted |-> FALSE,
     parentId |-> parentId, replies |-> <<>>]

\* checkRep() on a candidate state: TRUE when it returns, FALSE when it throws
CheckRep(msgs, hp) ==
    \A id \in DOMAIN msgs :
        LET m == hp[msgs[id]] IN
        /\ m.timestamp > 0
        /\ \A i \in 2..Len(m.editHistory) :
              m.editHistory[i].timestamp >= m.editHistory[i - 1].timestamp
        /\ (m.parentId # NoId => m.parentId \in DOMAIN msgs)

\* the repositories and the server's bookkeeping after construction
Built ==
    /\ messages = <<>>
    /\ messagesByRoom = <<>>
    /\ readReceiptCounts = <<>>
    /\ lock = FALSE
    /\ heap = <<>>
    /\ now = 1
    /\ calls = [c \in Calls |-> Idle]
    /\ ret = "none"
    /\ receipts = <<>>
    /\ applied = <<>>
    /\ users = <<>>
    /\ usernameIndex = <<>>
    /\ event = NoEvent
    /\ continuations = [c \in Calls |-> NoContinuation]
    /\ sanctioned = [muted |-> {}, banned |-> {}]

\* the repositories and a moderation engine after construction
Constructed == Built /\ rules = <<>>

Init == Constructed /\ sync = NoCall

\* faulty variant of LockFree: the lock is taken without testing the flag
LockFreeUntested == TRUE

\* `while (this.lock)` fails: the caller may take the lock
LockFree == ~lock

\* faulty variant of Released: releaseLock() at the end of the try block
\* instead of in finally, so that a throw leaves the flag set
ReleasedOnReturnOnly(outcome) == outcome \in {"Precondition", "Invariant", "TypeError"}

\* value of the lock flag once the `finally { this.releaseLock() }` of a
\* critical section that ended with `outcome` has run
Released(outcome) == FALSE

\* acquireLock(): run from the `while` test to the next await or to the return
AcquireLock(c, call) ==
    IF LockFree
    THEN /\ lock' = TRUE
         /\ calls' = [calls EXCEPT ![c] = [call EXCEPT !.pc = "acquired"]]
    ELSE /\ lock' = lock
         /\ calls' = [calls EXCEPT ![c] = [call EXCEPT !.pc = "waiting"]]

\* the ways a call of the repository ends by a throw
Thrown == {"Precondition", "Invariant", "TypeError"}

\* a call that throws in its precondition checks, before acquireLock
Reject(op) ==
    /\ ret' = "Precondition"
    /\ UNCHANGED <<messages, messagesByRoom, readReceiptCounts, lock, heap,
                   now, calls, receipts, applied>>

\* end of a critical section: finally releases, the promise settles
Settle(c, result) ==
    /\ lock' = Released(result)
    /\ calls' = [calls EXCEPT ![c] = Idle]
    /\ ret' = result

\* the setTimeout of a waiting caller fires and the loop tests the lock again
Poll(c) ==
    /\ calls[c].pc = "waiting"
    /\ AcquireLock(c, calls[c])
    /\ UNCHANGED <<messages, messagesByRoom, readReceiptCounts, heap, now, receipts, applied>>
    /\ ret' = "none"

(* ----------------------------- addMessage ------------------------------ *)
\* the four precondition checks of addMessage pass
AddPrecondition(username, text, room, parentId) ==
    /\ username # Empty
    /\ text # Empty
    /\ room # Empty
    /\ ~(parentId # NoId /\ ~Has(parentId))

\* addMessage up to and including the synchronous part of acquireLock
AddMessage(c, username, text, room, parentId) ==
    /\ FreeSlot(c)
    /\ IF AddPrecondition(username, text, room, parentId)
       THEN /\ AcquireLock(c, [pc |-> "idle", op |-> "add", id |-> parentId,
                               text |-> text, username |-> username,
                               room |-> room])
            /\ UNCHANGED <<messages, messagesByRoom, readReceiptCounts, heap,
                           now, receipts, applied>>
            /\ ret' = "none"
       ELSE Reject("add")

\* messagesByRoom after `get(room).add(id)` (a Set keeps first insertion order)
RoomAdd(room, id) ==
    LET old == IF room \in DOMAIN messagesByRoom THEN messagesByRoom[room] ELSE <<>>
    IN (room :> (IF id \in Range(old) THEN old ELSE Append(old, id))) @@ messagesByRoom

\* the critical section of addMessage when Math.random() yields suffix r
AddBodyWith(c, r) ==
    /\ calls[c].pc = "acquired"
    /\ calls[c].op = "add"
    /\ LET call == calls[c]
            id == <<now, r>>
            ref == Len(heap) + 1
            msgs1 == (id :> ref) @@ messages
            heap1 == Append(heap, NewMessage(id, call.username, call.text,
                                             call.room, call.id))
            linked == call.id # NoId /\ call.id \in DOMAIN msgs1
            heap2 == IF linked
                     THEN [heap1 EXCEPT ![msgs1[call.id]].replies = Append(@, ref)]
                     ELSE heap1
            outcome == IF call.id # NoId /\ ~linked THEN "TypeError"
                       ELSE IF CheckRep(msgs1, heap2) THEN "ok"
                       ELSE "Invariant"
        IN /\ messages' = msgs1
           /\ messagesByRoom' = RoomAdd(call.room, id)
           /\ heap' = heap2
           /\ applied' = Append(applied, [texts |-> <<call.text>>,
                                       returned |-> outcome = "ok",
                                       under |-> IF linked THEN msgs1[call.id] ELSE 0])
           /\ Settle(c, (outcome))
    /\ UNCHANGED <<readReceiptCounts, now, receipts>>

\* the critical section of addMessage
AddBody(c) == \E r \in 1..MaxRand : AddBodyWith(c, r)

(* ----------------------------- editMessage ----------------------------- *)
\* faulty variant of Authorized: the requester is not compared with the author
AuthorizedAnyone(m, username) == TRUE

\* `message.username !== username` is false
Authorized(m, username) == m.username = username

\* faulty variant of EditedMessage: the history record is taken after the
\* text has been replaced
EditedMessageRecordLate(m, newText) ==
    [m EXCEPT !.editHistory = Append(@, [text |-> newText, timestamp |-> now]),
              !.text = newText,
              !.edited = TRUE,
              !.timestamp = now]

\* faulty variant of EditedMessage: the history record is stamped with the
\* time of the edit and the message keeps its timestamp
EditedMessageStampSwapped(m, newText) ==
    [m EXCEPT !.editHistory = Append(@, [text |-> m.text, timestamp |-> now]),
              !.text = newText,
              !.edited = TRUE]

\* the message after the assignments of a successful edit
EditedMessage(m, newText) ==
    [m EXCEPT !.editHistory = Append(@, [text |-> m.text, timestamp |-> m.timestamp]),
              !.text = newText,
              !.edited = TRUE,
              !.timestamp = now]

\* the two precondition checks of editMessage pass
EditPrecondition(messageId, newText) ==
    /\ messageId # NoId
    /\ newText # Empty

\* editMessage up to and including the synchronous part of acquireLock
EditMessage(c, messageId, newText, username) ==
    /\ FreeSlot(c)
    /\ IF EditPrecondition(messageId, newText)
       THEN /\ AcquireLock(c, [pc |-> "idle", op |-> "edit", id |-> messageId,
                               text |-> newText, username |-> username,
                               room |-> Empty])
            /\ UNCHANGED <<messages, messagesByRoom, readReceiptCounts, heap,
                           now, receipts, applied>>
            /\ ret' = "none"
       ELSE Reject("edit")

\* faulty variant of EditVerdict: the author is compared before the deleted
\* flag is tested
EditVerdictAuthorFirst(messageId, username) ==
    IF ~Has(messageId) THEN "Precondition"
    ELSE IF heap[messages[messageId]].username # username THEN "null"
    ELSE IF heap[messages[messageId]].deleted THEN "Precondition"
    ELSE "go"

\* how the critical section of editMessage ends before it changes anything:
\* "go" when every check passes
EditVerdict(messageId, username) ==
    IF ~Has(messageId) THEN "Precondition"
    ELSE IF heap[messages[messageId]].deleted THEN "Precondition"
    ELSE IF ~Authorized(heap[messages[messageId]], username) THEN "null"
    ELSE "go"

\* the critical section of editMessage
EditBody(c) ==
    /\ calls[c].pc = "acquired"
    /\ calls[c].op = "edit"
    /\ LET call == calls[c]
           verdict == EditVerdict(call.id, call.username)
       IN IF verdict # "go"
          THEN /\ Settle(c, (verdict))
               /\ UNCHANGED <<heap, applied>>
          ELSE LET ref == messages[call.id]
                   heap1 == [heap EXCEPT ![ref] = EditedMessage(@, call.text)]
                   passed == CheckRep(messages, heap1)
               IN /\ heap' = heap1
                  /\ applied' = IF passed
                                THEN [applied EXCEPT ![ref].texts = Append(@, call.text)]
                                ELSE applied
                  /\ Settle(c, (IF passed THEN "ok" ELSE "Invariant"))
    /\ UNCHANGED <<messages, messagesByRoom, readReceiptCounts, now, receipts>>

(* ---------------------------- deleteMessage ---------------------------- *)
\* the message after the assignments of a successful delete
DeletedMessage(m) == [m EXCEPT !.deleted = TRUE, !.text = Placeholder]

\* deleteMessage up to and including the synchronous part of acquireLock
DeleteMessage(c, messageId, username) ==
    /\ FreeSlot(c)
    /\ IF messageId # NoId
       THEN /\ AcquireLock(c, [pc |-> "idle", op |-> "delete", id |-> messageId,
                               text |-> Empty, username |-> username,
                               room |-> Empty])
            /\ UNCHANGED <<messages, messagesByRoom, readReceiptCounts, heap,
                           now, receipts, applied>>
            /\ ret' = "none"
       ELSE Reject("delete")

\* how the critical section of deleteMessage ends before it changes anything
DeleteVerdict(messageId, username) ==
    IF ~Has(messageId) THEN "Precondition"
    ELSE IF ~Authorized(heap[messages[messageId]], username) THEN "false"
    ELSE "go"

\* the critical section of deleteMessage
DeleteBody(c) ==
    /\ calls[c].pc = "acquired"
    /\ calls[c].op = "delete"
    /\ LET call == calls[c]
           verdict == DeleteVerdict(call.id, call.username)
       IN IF verdict # "go"
          THEN /\ Settle(c, (verdict))
               /\ UNCHANGED heap
          ELSE LET heap1 == [heap EXCEPT ![messages[call.id]] = DeletedMessage(@)]
               IN /\ heap' = heap1
                  /\ Settle(c, (IF CheckRep(messages, heap1)
                                                THEN "true" ELSE "Invariant"))
    /\ UNCHANGED <<messages, messagesByRoom, readReceiptCounts, now, receipts,
                   applied>>

(* ------------------------- incrementReadReceipt ------------------------ *)
\* faulty variant of SetCount: the count read is stored, not the new one
SetCountStale(messageId, newCount) == (messageId :> newCount - 1) @@ readReceiptCounts

\* readReceiptCounts after `set(messageId, newCount)`
SetCount(messageId, newCount) == (messageId :> newCount) @@ readReceiptCounts

\* incrementReadReceipt up to and including the synchronous part of acquireLock
IncrementReadReceipt(c, messageId) ==
    /\ FreeSlot(c)
    /\ AcquireLock(c, [pc |-> "idle", op |-> "incr", id |-> messageId,
                       text |-> Empty, username |-> Empty, room |-> Empty])
    /\ UNCHANGED <<messages, messagesByRoom, readReceiptCounts, heap, now, receipts, applied>>
    /\ ret' = "none"

\* the critical section of incrementReadReceipt
IncrementBody(c) ==
    /\ calls[c].pc = "acquired"
    /\ calls[c].op = "incr"
    /\ LET id == calls[c].id
           newCount == Count(id) + 1
       IN /\ readReceiptCounts' = SetCount(id, newCount)
          /\ receipts' = (id :> Append(IF id \in DOMAIN receipts THEN receipts[id]
                                       ELSE <<>>, newCount)) @@ receipts
          /\ Settle(c, ("ok"))
    /\ UNCHANGED <<messages, messagesByRoom, heap, now, applied>>

(* -------------------------------- clear -------------------------------- *)
Clear ==
    /\ messages' = <<>>
    /\ messagesByRoom' = <<>>
    /\ readReceiptCounts' = <<>>
    /\ heap' = <<>>
    /\ receipts' = <<>>
    /\ applied' = <<>>
    /\ ret' = "none"
    /\ UNCHANGED <<lock, now, calls>>

\* the millisecond clock advances
Tick ==
    /\ now < MaxNow
    /\ now' = now + 1
    /\ UNCHANGED <<messages, messagesByRoom, readReceiptCounts, lock, heap,
                   calls, receipts, applied>>
    /\ ret' = "none"

(* ------------------------------- reads -------------------------------- *)
\* getMessage(messageId): a reference, or 0 for undefined
GetMessage(messageId) == IF Has(messageId) THEN messages[messageId] ELSE 0

\* getReadReceiptCount(messageId)
GetReadReceiptCount(messageId) == Count(messageId)

\* faulty variant of InsertByTimestamp: the comparator is turned round and
\* the list is sorted by descending timestamp
InsertByTimestampDescending(sorted, ref) ==
    LET k == Cardinality({i \in 1..Len(sorted) :
                            heap[sorted[i]].timestamp >= heap[ref].timestamp})
    IN SubSeq(sorted, 1, k) \o <<ref>> \o SubSeq(sorted, k + 1, Len(sorted))

\* `ref` put into a list sorted by timestamp, behind the entries that do not
\* compare greater (Array.prototype.sort is stable)
InsertByTimestamp(sorted, ref) ==
    LET k == Cardinality({i \in 1..Len(sorted) :
                            heap[sorted[i]].timestamp <= heap[ref].timestamp})
    IN SubSeq(sorted, 1, k) \o <<ref>> \o SubSeq(sorted, k + 1, Len(sorted))

RECURSIVE SortByTimestamp(_)
SortByTimestamp(refs) ==
    IF refs = <<>> THEN <<>>
    ELSE InsertByTimestamp(SortByTimestamp(SubSeq(refs, 1, Len(refs) - 1)),
                           refs[Len(refs)])

\* getMessagesForRoom(room): references of the messages listed, in order
GetMessagesForRoom(room) ==
    IF room \notin DOMAIN messagesByRoom THEN <<>>
    ELSE LET ids == messagesByRoom[room]
             kept == SelectSeq(ids, LAMBDA id : Has(id) /\ ~heap[messages[id]].deleted)
         IN SortByTimestamp([i \in 1..Len(kept) |-> messages[kept[i]]])

(* -------------------------------- text --------------------------------- *)
\* the characters of the strings the model uses
Spelling(t) ==
    CASE t = Empty -> <<>>
      [] t = "a" -> <<"a">>
      [] t = "b" -> <<"b">>
      [] t = "c" -> <<"c">>
      [] t = "I" -> <<"I">>
      [] t = "Hi" -> <<"H", "i">>
      [] t = "yo" -> <<"y", "o">>
      [] t = "Bob" -> <<"B", "o", "b">>
      [] t = "bob" -> <<"b", "o", "b">>
      [] t = "amy" -> <<"a", "m", "y">>
      [] t = Placeholder -> <<"[", "M", "e", "s", "s", "a", "g", "e", " ",
                              "d", "e", "l", "e", "t", "e", "d", "]">>
      \* command names and the words of the moderation language
      [] t = "edit" -> <<"e", "d", "i", "t">>
      [] t = "delete" -> <<"d", "e", "l", "e", "t", "e">>
      [] t = "mute" -> <<"m", "u", "t", "e">>
      [] t = "ban" -> <<"b", "a", "n">>
      [] t = "reply" -> <<"r", "e", "p", "l", "y">>
      [] t = "when" -> <<"w", "h", "e", "n">>
      [] t = "then" -> <<"t", "h", "e", "n">>
      [] t = "and" -> <<"a", "n", "d">>
      [] t = "or" -> <<"o", "r">>
      [] t = "message" -> <<"m", "e", "s", "s", "a", "g", "e">>
      [] t = "user" -> <<"u", "s", "e", "r">>
      [] t = "username" -> <<"u", "s", "e", "r", "n", "a", "m", "e">>
      [] t = "word_count" -> <<"w", "o", "r", "d", "_", "c", "o", "u", "n", "t">>
      [] t = "length" -> <<"l", "e", "n", "g", "t", "h">>
      [] t = "contains" -> <<"c", "o", "n", "t", "a", "i", "n", "s">>
      [] t = "equals" -> <<"e", "q", "u", "a", "l", "s">>
      [] t = "matches" -> <<"m", "a", "t", "c", "h", "e", "s">>
      [] t = ">=" -> <<">", "=">>
      [] t = "<=" -> <<"<", "=">>
      [] t = ">" -> <<">">>
      [] t = "<" -> <<"<">>
      [] t = "warn" -> <<"w", "a", "r", "n">>
      [] t = "flag" -> <<"f", "l", "a", "g">>
      \* numbers, a quoted word and texts with blanks
      [] t = "1" -> <<"1">>
      [] t = "2" -> <<"2">>
      [] t = "5" -> <<"5">>
      [] t = "100" -> <<"1", "0", "0">>
      [] t = "'a'" -> <<"'", "a", "'">>
      [] t = "a b" -> <<"a", " ", "b">>
      [] t = " a" -> <<" ", "a">>
      \* chat input that is a command
      [] t = "/mute" -> <<"/", "m", "u", "t", "e">>
      [] t = "/mute bob" -> <<"/", "m", "u", "t", "e", " ", "b", "o", "b">>
      [] t = "/ban bob" -> <<"/", "b", "a", "n", " ", "b", "o", "b">>
      \* chat input that names a message by its id, in quotes
      [] t = "/edit \"1-k\" a" -> <<"/", "e", "d", "i", "t", " ", "\"", "1", "-", "k", "\"", " ", "a">>
      [] t = "/delete \"1-k\"" -> <<"/", "d", "e", "l", "e", "t", "e", " ", "\"", "1", "-", "k", "\"">>
      [] t = "/reply \"1-k\" a" -> <<"/", "r", "e", "p", "l", "y", " ", "\"", "1", "-", "k", "\"", " ", "a">>
      [] t = "/delete \"\"" -> <<"/", "d", "e", "l", "e", "t", "e", " ", "\"", "\"">>

\* the strings Spelling spells
Vocabulary ==
    {Empty, "a", "b", "c", "I", "Hi", "yo", "Bob", "bob", "amy",
     Placeholder, "edit", "delete", "mute", "ban", "reply", "when",
     "then", "and", "or", "message", "user", "username", "word_count",
     "length", "contains", "equals", "matches", ">=", "<=", ">", "<",
     "warn", "flag", "1", "2", "5", "100", "'a'", "a b", " a",
     "/mute", "/mute bob", "/ban bob",
     "/edit \"1-k\" a", "/delete \"1-k\"", "/reply \"1-k\" a",
     "/delete \"\""}

LowerChar(ch) ==
    CASE ch = "A" -> "a"
      [] ch = "B" -> "b"
      [] ch = "D" -> "d"
      [] ch = "E" -> "e"
      [] ch = "H" -> "h"
      [] ch = "I" -> "i"
      [] ch = "M" -> "m"
      [] ch = "N" -> "n"
      [] ch = "O" -> "o"
      [] ch = "R" -> "r"
      [] ch = "T" -> "t"
      [] ch = "W" -> "w"
      [] OTHER -> ch

\* String.prototype.toLowerCase, as a sequence of characters
ToLowerCase(t) == [i \in 1..Len(Spelling(t)) |-> LowerChar(Spelling(t)[i])]

\* String.prototype.includes on sequences of characters
Includes(hay, needle) ==
    \E k \in 0..(Len(hay) - Len(needle)) : SubSeq(hay, k + 1, k + Len(needle)) = needle

(* ------------------------------ recursion ------------------------------ *)
\* the call stack a recursive helper can use: a recursion that goes deeper
\* than there are objects is on a cycle and never returns (RangeError)
StackDepth == Len(heap) + 1

\* a recursion over the non-deleted replies of `ref` returns within `fuel` frames
RECURSIVE Terminates(_, _)
Terminates(ref, fuel) ==
    /\ fuel > 0
    /\ \A i \in 1..Len(heap[ref].replies) :
          ~heap[heap[ref].replies[i]].deleted
             => Terminates(heap[ref].replies[i], fuel - 1)

Max(S) == CHOOSE x \in S : \A y \in S : y <= x

\* value and outcome of a synchronous call
Returned(v) == [value |-> v, threw |-> FALSE]
Overflowed(v) == [value |-> v, threw |-> TRUE]

(* --------------------------- getMessageThread -------------------------- *)
RECURSIVE PopulateReplies(_, _, _)
RECURSIVE PopulateEach(_, _, _)

\* populateReplies(msg) on the stored object `ref`, the store being `hp`:
\* the store afterwards, the tree returned as <<ref, subtrees>>, and whether
\* the recursion returned
PopulateReplies(ref, hp, fuel) ==
    IF fuel = 0 THEN [hp |-> hp, tree |-> <<>>, ok |-> FALSE]
    ELSE IF hp[ref].replies = <<>> THEN [hp |-> hp, tree |-> <<ref, <<>>>>, ok |-> TRUE]
    ELSE LET kept == SelectSeq(hp[ref].replies, LAMBDA r : ~hp[r].deleted)
             sub == PopulateEach(kept, hp, fuel - 1)
         IN IF sub.ok
            THEN [hp |-> [sub.hp EXCEPT ![ref].replies = kept],
                  tree |-> <<ref, sub.trees>>, ok |-> TRUE]
            ELSE [hp |-> sub.hp, tree |-> <<>>, ok |-> FALSE]

\* `.map(reply => populateReplies(reply))`, left to right
PopulateEach(refs, hp, fuel) ==
    IF refs = <<>> THEN [hp |-> hp, trees |-> <<>>, ok |-> TRUE]
    ELSE LET first == PopulateReplies(Head(refs), hp, fuel)
         IN IF ~first.ok THEN [hp |-> first.hp, trees |-> <<>>, ok |-> FALSE]
            ELSE LET rest == PopulateEach(Tail(refs), first.hp, fuel)
                 IN [hp |-> rest.hp, trees |-> <<first.tree>> \o rest.trees,
                     ok |-> rest.ok]

\* getMessageThread(messageId): populateReplies on a shallow copy of the
\* message, whose own reply list is therefore replaced in the copy only
GetMessageThread(messageId) ==
    IF ~Has(messageId) THEN [hp |-> heap, tree |-> <<>>, ok |-> TRUE]
    ELSE LET ref == messages[messageId]
         IN IF heap[ref].replies = <<>>
            THEN [hp |-> heap, tree |-> <<ref, <<>>>>, ok |-> TRUE]
            ELSE LET kept == SelectSeq(heap[ref].replies, LAMBDA r : ~heap[r].deleted)
                     sub == PopulateEach(kept, heap, StackDepth)
                 IN [hp |-> sub.hp,
                     tree |-> IF sub.ok THEN <<ref, sub.trees>> ELSE <<>>,
                     ok |-> sub.ok]

(* ---------------------------- searchMessages --------------------------- *)
RECURSIVE SearchRecursive(_, _)
RECURSIVE SearchReplies(_, _)

\* what searchRecursive(msg) pushes onto results, in order
SearchRecursive(ref, lowerKeyword) ==
    (IF Includes(ToLowerCase(heap[ref].text), lowerKeyword) THEN <<ref>> ELSE <<>>)
        \o SearchReplies(heap[ref].replies, lowerKeyword)

\* the loop over msg.replies
SearchReplies(refs, lowerKeyword) ==
    IF refs = <<>> THEN <<>>
    ELSE (IF heap[Head(refs)].deleted THEN <<>>
          ELSE SearchRecursive(Head(refs), lowerKeyword))
            \o SearchReplies(Tail(refs), lowerKeyword)

\* the loop over roomMessages
RECURSIVE SearchEach(_, _)
SearchEach(refs, lowerKeyword) ==
    IF refs = <<>> THEN <<>>
    ELSE SearchRecursive(Head(refs), lowerKeyword) \o SearchEach(Tail(refs), lowerKeyword)

\* searchMessages(keyword, room)
SearchMessages(keyword, room) ==
    LET roomMessages == GetMessagesForRoom(room)
    IN IF \A i \in 1..Len(roomMessages) : Terminates(roomMessages[i], StackDepth)
       THEN Returned(SearchEach(roomMessages, ToLowerCase(keyword)))
       ELSE Overflowed(<<>>)

(* ---------------------------- getThreadDepth --------------------------- *)
RECURSIVE CalculateDepth(_)
CalculateDepth(ref) ==
    IF heap[ref].replies = <<>> THEN 0
    ELSE 1 + Max({0} \cup {CalculateDepth(heap[ref].replies[i]) :
                              i \in {j \in 1..Len(heap[ref].replies) :
                                        ~heap[heap[ref].replies[j]].deleted}})

\* getThreadDepth(messageId)
GetThreadDepth(messageId) ==
    IF ~Has(messageId) THEN Returned(-1)
    ELSE IF Terminates(messages[messageId], StackDepth)
    THEN Returned(CalculateDepth(messages[messageId]))
    ELSE Overflowed(0)

(* -------------------------- synchronous reads -------------------------- *)
\* the step is a call of a read operation that returns `result`; none of
\* them assigns anything but, in getMessageThread, fields of messages
Answer(op, arg, result) ==
    /\ sync' = [op |-> op, arg |-> arg, value |-> result.value, threw |-> result.threw]
    /\ ret' = "none"
    /\ UNCHANGED <<messages, messagesByRoom, readReceiptCounts, lock, now, calls,
                   receipts, applied, registry, rules>>
    /\ Offline

GetMessageCall(messageId) ==
    /\ Answer("getMessage", <<messageId>>, Returned(GetMessage(messageId)))
    /\ UNCHANGED heap

GetMessagesForRoomCall(room) ==
    /\ Answer("getMessagesForRoom", <<room>>, Returned(GetMessagesForRoom(room)))
    /\ UNCHANGED heap

GetMessageThreadCall(messageId) ==
    LET thread == GetMessageThread(messageId)
    IN /\ Answer("getMessageThread", <<messageId>>,
                 [value |-> thread.tree, threw |-> ~thread.ok])
       /\ heap' = thread.hp

SearchMessagesCall(keyword, room) ==
    /\ Answer("searchMessages", <<keyword, room>>, SearchMessages(keyword, room))
    /\ UNCHANGED heap

GetThreadDepthCall(messageId) ==
    /\ Answer("getThreadDepth", <<messageId>>, GetThreadDepth(messageId))
    /\ UNCHANGED heap

GetReadReceiptCountCall(messageId) ==
    /\ Answer("getReadReceiptCount", <<messageId>>,
              Returned(GetReadReceiptCount(messageId)))
    /\ UNCHANGED heap

(* ---------------------------- UserRepository --------------------------- *)
\* what userJoin returns when the name is in use
Taken == "Username is already taken"

\* UserRepository.checkRep() on a candidate state: TRUE when it returns
UserCheckRep(us, idx) ==
    /\ \A a, b \in DOMAIN us :
          a # b => ToLowerCase(us[a].username) # ToLowerCase(us[b].username)
    /\ \A a \in DOMAIN us : us[a].room # Empty
    /\ Cardinality(DOMAIN idx) = Cardinality(DOMAIN us)

\* the step is a call of a method of the user registry
Registry(op, arg, value, threw) ==
    /\ sync' = [op |-> op, arg |-> arg, value |-> value, threw |-> threw]
    /\ ret' = "none"
    /\ UNCHANGED <<messages, messagesByRoom, readReceiptCounts, lock, heap, now,
                   calls, receipts, applied>>

\* faulty variant of JoinVerdict: the username index is not consulted
JoinVerdictNamesUnchecked(id, username, room) ==
    IF id = Empty THEN "id must be non-empty"
    ELSE IF username = Empty THEN "username must be non-empty"
    ELSE IF room = Empty THEN "room must be non-empty"
    ELSE IF id \in DOMAIN users THEN "socket ID already in use"
    ELSE "go"

\* faulty variant of JoinVerdict: the username is looked up before the
\* socket id
JoinVerdictNameFirst(id, username, room) ==
    IF id = Empty THEN "id must be non-empty"
    ELSE IF username = Empty THEN "username must be non-empty"
    ELSE IF room = Empty THEN "room must be non-empty"
    ELSE IF ToLowerCase(username) \in DOMAIN usernameIndex THEN Taken
    ELSE IF id \in DOMAIN users THEN "socket ID already in use"
    ELSE "go"

\* how userJoin ends before it registers anything: "go" when it registers
JoinVerdict(id, username, room) ==
    IF id = Empty THEN "id must be non-empty"
    ELSE IF username = Empty THEN "username must be non-empty"
    ELSE IF room = Empty THEN "room must be non-empty"
    ELSE IF id \in DOMAIN users THEN "socket ID already in use"
    ELSE IF ToLowerCase(username) \in DOMAIN usernameIndex THEN Taken
    ELSE "go"

UserJoin(id, username, room, role) ==
    LET verdict == JoinVerdict(id, username, room)
        arg == <<id, username, room, role>>
        user == [id |-> id, username |-> username, room |-> room, role |-> role,
                 muted |-> FALSE, banned |-> FALSE]
        users1 == (id :> user) @@ users
        index1 == (ToLowerCase(username) :> id) @@ usernameIndex
    IN IF verdict # "go"
       THEN /\ Registry("userJoin", arg, verdict, verdict # Taken)
            /\ UNCHANGED registry
       ELSE /\ users' = users1
            /\ usernameIndex' = index1
            /\ IF UserCheckRep(users1, index1)
               THEN Registry("userJoin", arg, "user", FALSE)
               ELSE Registry("userJoin", arg, "Invariant", TRUE)

\* getUserByUsername(username): the socket id of the user, Empty for undefined
GetUserByUsername(username) ==
    LET key == ToLowerCase(username)
    IN IF key \in DOMAIN usernameIndex /\ usernameIndex[key] \in DOMAIN users
       THEN usernameIndex[key]
       ELSE Empty

\* muteUser, unmuteUser and banUser: `user[field] = flag` on the user found
SetFlag(op, username, field, flag) ==
    LET id == GetUserByUsername(username)
    IN IF id = Empty
       THEN /\ Registry(op, <<username>>, "false", FALSE)
            /\ UNCHANGED registry
       ELSE /\ users' = [users EXCEPT ![id][field] = flag]
            /\ UNCHANGED usernameIndex
            /\ Registry(op, <<username>>, "true", FALSE)

MuteUser(username) == SetFlag("muteUser", username, "muted", TRUE)

UnmuteUser(username) == SetFlag("unmuteUser", username, "muted", FALSE)

BanUser(username) == SetFlag("banUser", username, "banned", TRUE)

\* faulty variant of LeaveKey: the username is not lowercased
LeaveKeyAsTyped(user) == Spelling(user.username)

\* the index key userLeave deletes
LeaveKey(user) == ToLowerCase(user.username)

UserLeave(id) ==
    IF id \in DOMAIN users
    THEN LET users1 == [a \in DOMAIN users \ {id} |-> users[a]]
             index1 == [k \in DOMAIN usernameIndex \ {LeaveKey(users[id])}
                           |-> usernameIndex[k]]
         IN /\ users' = users1
            /\ usernameIndex' = index1
            /\ IF UserCheckRep(users1, index1)
               THEN Registry("userLeave", <<id>>, "user", FALSE)
               ELSE Registry("userLeave", <<id>>, "Invariant", TRUE)
    ELSE /\ Registry("userLeave", <<id>>, "undefined", FALSE)
         /\ UNCHANGED registry

\* UserRepository.clear()
ClearUsers ==
    /\ users' = <<>>
    /\ usernameIndex' = <<>>
    /\ Registry("clear", <<>>, "undefined", FALSE)

\* a call of the user registry from outside the server's handlers
Direct == Offline /\ UNCHANGED rules

(* ---------------------------- command parser --------------------------- *)
\* the characters String.prototype.trim removes and \s matches
WhiteSpace == {" ", "\t", "\n"}
\* the characters the tokenizer skips: `char === ' ' || char === '\t'`
Blank == {" ", "\t"}
\* `char >= '0' && char <= '9'`
Digits == {"0", "1", "2", "3", "4", "5", "6", "7", "8", "9"}
\* `char === '"' || char === "'"`
Quotes == {"\"", "'"}

Min(S) == CHOOSE x \in S : \A y \in S : x <= y

\* toLowerCase on a sequence of characters
Lower(cs) == [i \in 1..Len(cs) |-> LowerChar(cs[i])]

\* position of the first character from i on that is none of `skipped`,
\* Len(cs) + 1 when there is none
RECURSIVE Past(_, _, _)
Past(cs, i, skipped) ==
    IF i > Len(cs) \/ cs[i] \notin skipped THEN i ELSE Past(cs, i + 1, skipped)

\* position of the last character up to i that is not white space, 0 when
\* there is none
RECURSIVE LastInk(_, _)
LastInk(cs, i) ==
    IF i = 0 \/ cs[i] \notin WhiteSpace THEN i ELSE LastInk(cs, i - 1)

\* String.prototype.trim
Trim(cs) == SubSeq(cs, Past(cs, 1, WhiteSpace), LastInk(cs, Len(cs)))

\* String.prototype.startsWith
StartsWith(cs, prefix) ==
    Len(prefix) <= Len(cs) /\ SubSeq(cs, 1, Len(prefix)) = prefix

\* where `while (i < input.length && input[i] !== stop) i++` ends
RECURSIVE StopAt(_, _, _)
StopAt(input, i, stops) ==
    IF i > Len(input) \/ input[i] \in stops THEN i ELSE StopAt(input, i + 1, stops)

\* where `while (i < input.length && input[i] >= '0' && input[i] <= '9') i++` ends
PastDigits(input, i) == Past(input, i, Digits)

\* tokenize(input) from position i (1-based) on
RECURSIVE Tokenize(_, _)
Tokenize(input, i) ==
    IF i > Len(input) THEN <<[type |-> "EOF", value |-> <<>>]>>
    ELSE IF input[i] \in Blank THEN Tokenize(input, i + 1)
    ELSE IF input[i] = "/" /\ i = 1
    THEN LET j == StopAt(input, i + 1, Blank)
         IN <<[type |-> "COMMAND", value |-> SubSeq(input, i + 1, j - 1)]>>
               \o Tokenize(input, j)
    ELSE IF input[i] \in Quotes
    THEN LET j == StopAt(input, i + 1, {input[i]})
         IN <<[type |-> "STRING", value |-> SubSeq(input, i + 1, j - 1)]>>
               \o Tokenize(input, j + 1)
    ELSE IF input[i] \in Digits
    THEN LET j == PastDigits(input, i)
         IN <<[type |-> "NUMBER", value |-> SubSeq(input, i, j - 1)]>>
               \o Tokenize(input, j)
    ELSE LET j == StopAt(input, i, Blank)
         IN <<[type |-> "ARGUMENT", value |-> SubSeq(input, i, j - 1)]>>
               \o Tokenize(input, j)

\* buildAST(tokens): the command name and the argument tokens before EOF
BuildAST(tokens) ==
    IF Len(tokens) = 0 \/ tokens[1].type # "COMMAND"
    THEN [type |-> "INVALID_COMMAND", value |-> <<>>, children |-> <<>>]
    ELSE LET eof == Min({k \in 2..Len(tokens) : tokens[k].type = "EOF"}
                        \cup {Len(tokens) + 1})
         IN [type |-> "COMMAND_NODE", value |-> tokens[1].value,
             children |-> SubSeq(tokens, 2, eof - 1)]

ValidCommands == {"edit", "delete", "mute", "ban", "reply"}

\* the ParsedCommand type of a command name
CommandType(name) ==
    IF \E t \in ValidCommands : Spelling(t) = Lower(name)
    THEN CHOOSE t \in ValidCommands : Spelling(t) = Lower(name)
    ELSE "unknown"

\* the ParsedCommand of an input whose AST is `ast`
ParsedFrom(ast) ==
    IF ast.type = "INVALID_COMMAND" \/ ast.value = <<>>
    THEN [type |-> "unknown", args |-> <<>>]
    ELSE [type |-> CommandType(ast.value),
          args |-> [k \in 1..Len(ast.children) |-> ast.children[k].value]]

\* parse after `const trimmed = input.trim()`
ParseTrimmed(trimmed) ==
    IF ~StartsWith(trimmed, <<"/">>)
    THEN [type |-> "unknown", args |-> <<>>]
    ELSE ParsedFrom(BuildAST(Tokenize(trimmed, 1)))

\* CommandParser.parse(input), without the `raw` field
Parse(input) == ParseTrimmed(Trim(input))

\* CommandParser.validate(command)
Validate(command) ==
    CASE command.type = "edit" -> Len(command.args) >= 2
      [] command.type = "delete" -> Len(command.args) = 1
      [] command.type \in {"mute", "ban"} -> Len(command.args) = 1
      [] command.type = "reply" -> Len(command.args) >= 2
      [] OTHER -> FALSE

(* --------------------------- moderation rules -------------------------- *)
\* The rule strings of the model are written with letters, digits, blanks,
\* quotes and the characters _ < > = : a number in them is a run of digits
\* with an optional exponent, and none of them is special in a RegExp.
Letters == {"a", "b", "c", "d", "e", "f", "g", "h", "i", "j", "k", "l", "m",
            "n", "o", "p", "q", "r", "s", "t", "u", "v", "w", "x", "y", "z"}
\* the capital letters LowerChar knows
Capitals == {"A", "B", "D", "E", "H", "I", "M", "N", "O", "R", "T", "W"}
\* the characters \w matches
WordChars == Letters \cup Capitals \cup Digits \cup {"_"}

\* the words of a phrase, one space between them
RECURSIVE Phrase(_)
Phrase(words) ==
    IF Len(words) = 0 THEN <<>>
    ELSE IF Len(words) = 1 THEN Spelling(words[1])
    ELSE Spelling(words[1]) \o <<" ">> \o Phrase(Tail(words))

\* String.prototype.split(separator) for a non-empty separator string
RECURSIVE Split(_, _)
Split(cs, sep) ==
    LET hits == {k \in 1..(Len(cs) - Len(sep) + 1) :
                    SubSeq(cs, k, k + Len(sep) - 1) = sep}
    IN IF hits = {} THEN <<cs>>
       ELSE <<SubSeq(cs, 1, Min(hits) - 1)>>
               \o Split(SubSeq(cs, Min(hits) + Len(sep), Len(cs)), sep)

\* value.replace(/['"]/g, '')
StripQuotes(cs) == SelectSeq(cs, LAMBDA ch : ch \notin Quotes)

DigitValue(ch) == CHOOSE d \in 0..9 : <<"0", "1", "2", "3", "4", "5", "6", "7", "8", "9">>[d + 1] = ch

RECURSIVE DigitsValue(_)
DigitsValue(cs) ==
    IF Len(cs) = 0 THEN 0
    ELSE 10 * DigitsValue(SubSeq(cs, 1, Len(cs) - 1)) + DigitValue(cs[Len(cs)])

RECURSIVE Power10(_)
Power10(k) == IF k = 0 THEN 1 ELSE 10 * Power10(k - 1)

\* the string a number converts to (a non-negative integer here)
RECURSIVE NumberText(_)
NumberText(n) ==
    LET last == <<<<"0", "1", "2", "3", "4", "5", "6", "7", "8", "9">>[(n % 10) + 1]>>
    IN IF n < 10 THEN last ELSE NumberText(n \div 10) \o last

\* a RuleCondition value: a number or a string
NumberValue(n) == [isNumber |-> TRUE, n |-> n, s |-> <<>>]
StringValue(cs) == [isNumber |-> FALSE, n |-> 0, s |-> cs]

\* the number whose digits end before `past` and whose exponent, when it
\* has one, ends before `pastExp`
Scaled(mantissa, cs, past, pastExp) ==
    IF past <= Len(cs) /\ cs[past] = "e" /\ pastExp > past + 1
    THEN NumberValue(mantissa * Power10(DigitsValue(SubSeq(cs, past + 1, pastExp - 1))))
    ELSE NumberValue(mantissa)

\* parseFloat of a text whose digits run from `first` to before `past`
FloatFrom(cs, first, past) ==
    IF past = first THEN StringValue(cs)
    ELSE Scaled(DigitsValue(SubSeq(cs, first, past - 1)), cs, past,
                PastDigits(cs, past + 1))

\* parseFloat skips leading white space
FloatAfter(cs, first) == FloatFrom(cs, first, PastDigits(cs, first))

\* parseFloat(value) followed by the isNaN test: the number when the text
\* starts (after white space) with digits, the string itself otherwise
ParseFloat(cs) == FloatAfter(cs, Past(cs, 1, WhiteSpace))

Operators == <<"contains", "equals", "matches", ">=", "<=", ">", "<">>

\* the condition of `split(` ${op} `)` when it has two parts, else the next
\* operator is tried
RECURSIVE ParseConditionFrom(_, _)
ConditionOf(condStr, k, parts) ==
    IF Len(parts) = 2
    THEN <<[field |-> Trim(parts[1]), operator |-> Operators[k],
            value |-> ParseFloat(StripQuotes(Trim(parts[2])))]>>
    ELSE ParseConditionFrom(condStr, k + 1)

\* parseCondition(condStr) trying the operators from position k on:
\* <<condition>>, or <<>> for null
ParseConditionFrom(condStr, k) ==
    IF k > Len(Operators) THEN <<>>
    ELSE ConditionOf(condStr, k,
                     Split(condStr, <<" ">> \o Spelling(Operators[k]) \o <<" ">>))

ParseCondition(condStr) == ParseConditionFrom(condStr, 1)

\* cs[from..to] is white space
AllWhiteSpace(cs, from, to) == \A k \in from..to : cs[k] \in WhiteSpace

\* position of the first character from i on that \s does not match
PastWhiteSpace(cs, i) == Past(cs, i, WhiteSpace)

\* (\w+) matches at `word`, which is after white space that follows "then"
WordFollows(cs, t, word) ==
    /\ word > t + 4
    /\ word <= Len(cs)
    /\ cs[word] \in WordChars

\* then\s+(\w+) matches at `t`, which is after white space that follows `last`
ThenAt(cs, last, t) ==
    /\ t > last + 1
    /\ t + 3 <= Len(cs)
    /\ SubSeq(cs, t, t + 3) = Spelling("then")
    /\ WordFollows(cs, t, PastWhiteSpace(cs, t + 4))

\* \s+then\s+(\w+) matches right after position `last`
ThenFollows(cs, last) == ThenAt(cs, last, PastWhiteSpace(cs, last + 1))

\* where (.+) can end when it starts at `part`: `.` matches no line break
PartEnds(cs, part) ==
    {last \in part..(Len(cs) - 1) :
        /\ cs[last + 1] \in WhiteSpace
        /\ ThenFollows(cs, last)
        /\ \A k \in part..last : cs[k] # "\n"}

\* where (.+) can start when "when" starts at `from`
PartStarts(cs, from) ==
    {part \in (from + 5)..Len(cs) :
        /\ AllWhiteSpace(cs, from + 4, part - 1)
        /\ PartEnds(cs, part) # {}}

\* where a match of /when\s+(.+)\s+then\s+(\w+)/ can start
MatchStarts(cs) ==
    {from \in 1..(Len(cs) - 3) :
        /\ SubSeq(cs, from, from + 3) = Spelling("when")
        /\ PartStarts(cs, from) # {}}

\* the match whose (.+) is cs[part..last]: the action is the run of \w
\* characters at `word`
MatchTo(cs, part, last) ==
    [part |-> part, last |-> last,
     word |-> PastWhiteSpace(cs, PastWhiteSpace(cs, last + 1) + 4)]

\* (.+) is as long as possible
MatchOf(cs, part) == MatchTo(cs, part, Max(PartEnds(cs, part)))

\* the first \s+ is as long as possible
MatchFrom(cs, from) == MatchOf(cs, Max(PartStarts(cs, from)))

\* the match a backtracking matcher finds first: leftmost, the first \s+ as
\* long as possible, then (.+) as long as possible
WhenThenMatch(cs) == MatchFrom(cs, Min(MatchStarts(cs)))

\* `conditionPart.includes(' or ') ? 'or' : 'and'`
Logic(conditionPart) ==
    IF Includes(conditionPart, <<" ", "o", "r", " ">>) THEN "or" ELSE "and"

\* the ParsedRule of the conditions that are not null, <<>> when there is none
Assembled(parsed, action, logic) ==
    IF Len(parsed) = 0 THEN <<>>
    ELSE <<[conditions |-> [k \in 1..Len(parsed) |-> parsed[k][1]],
            action |-> action, logic |-> logic]>>

\* the loop over conditionStrings: the conditions parseCondition returns
ParseEach(conditionStrings) ==
    SelectSeq([k \in 1..Len(conditionStrings) |->
                  ParseCondition(Trim(conditionStrings[k]))],
              LAMBDA c : c # <<>>)

\* parse once the logic is known
ParseWith(conditionPart, action, logic) ==
    Assembled(ParseEach(Split(conditionPart, <<" ">> \o Spelling(logic) \o <<" ">>)),
              action, logic)

\* parse once the regular expression has matched with groups
\* conditionPart and action
ParseParts(conditionPart, action) ==
    ParseWith(conditionPart, action, Logic(conditionPart))

ParseMatched(normalized, m) ==
    ParseParts(SubSeq(normalized, m.part, m.last),
               SubSeq(normalized, m.word, Past(normalized, m.word, WordChars) - 1))

\* parse after `ruleString.toLowerCase().trim()`
ParseNormalized(normalized) ==
    IF MatchStarts(normalized) = {} THEN <<>>
    ELSE ParseMatched(normalized, WhenThenMatch(normalized))

\* ModerationDSLParser.parse(ruleString): <<parsed rule>>, or <<>> for null
DslParse(ruleString) == ParseNormalized(Trim(Lower(ruleString)))

\* the rule strings of the scenarios: conditions that are admitted and
\* conditions that are not
Conditions ==
    {Phrase(<<"when", "message", "contains", "'a'", "then", "delete">>),
     Phrase(<<"when", "word_count", ">", "1", "then", "warn">>),
     Phrase(<<"when", "message", "contains", "a", "and", "word_count", ">", "1",
              "then", "flag">>),
     Phrase(<<"when", "message", "contains", "a", "or", "user", "equals", "bob",
              "then", "ban">>),
     Phrase(<<"when", "message", "contains", "a", "and", "user", "equals", "bob",
              "or", "word_count", ">", "1", "then", "mute">>),
     Phrase(<<"a", "b">>),
     Phrase(<<"when", "c", "equals", "a", "then", "warn">>),
     Phrase(<<"when", "message", "contains", "a", "then", "c">>)}

\* the rule the server module installs when it is loaded
SpamDetection ==
    [id |-> "spam-detection",
     condition |-> Phrase(<<"when", "word_count", ">", "100", "then", "warn">>),
     action |-> Spelling("warn"), enabled |-> TRUE]

\* the strings whose parse is computed once
Memoized ==
    Conditions \cup {SpamDetection.condition, Spelling("warn"), Spelling("delete")}

\* parse() of these strings
ParseTable == [ruleString \in Memoized |-> DslParse(ruleString)]

\* this.parser.parse(ruleString)
Parsed(ruleString) ==
    IF ruleString \in Memoized THEN ParseTable[ruleString]
    ELSE DslParse(ruleString)

ValidFields == {"message", "user", "username", "word_count", "length"}
ValidActions == {"mute", "ban", "delete", "warn", "flag"}

\* ModerationDSLParser.validate(rule)
DslValidate(rule) ==
    /\ \E a \in ValidActions : Spelling(a) = rule.action
    /\ \A k \in 1..Len(rule.conditions) :
          /\ \E f \in ValidFields : Spelling(f) = rule.conditions[k].field
          /\ rule.conditions[k].operator \in Range(Operators)

\* message.split(/\s+/).length: one piece more than there are runs of white space
WordCount(message) ==
    Cardinality({k \in 1..Len(message) :
                    /\ message[k] \in WhiteSpace
                    /\ (k = 1 \/ message[k - 1] \notin WhiteSpace)}) + 1

\* the number a string operand of a comparison converts to: <<n>>, <<>> for NaN
ToNumber(value) ==
    IF value.isNumber THEN <<value.n>>
    ELSE IF Trim(value.s) = <<>> THEN <<0>>
    ELSE <<>>

\* the string a value converts to
ToText(value) == IF value.isNumber THEN NumberText(value.n) ELSE value.s

\* the switch on condition.field
FieldValue(field, message, username) ==
    CASE field = "message" -> StringValue(Lower(message))
      [] field \in {"user", "username"} -> StringValue(Lower(username))
      [] field = "word_count" -> NumberValue(WordCount(message))
      [] field = "length" -> NumberValue(Len(message))

\* a relational operator applied to the field and the number the condition
\* value converts to
Related(operator, fieldValue, operand) ==
    /\ fieldValue.isNumber
    /\ operand # <<>>
    /\ CASE operator = ">" -> fieldValue.n > operand[1]
         [] operator = "<" -> fieldValue.n < operand[1]
         [] operator = ">=" -> fieldValue.n >= operand[1]
         [] operator = "<=" -> fieldValue.n <= operand[1]

\* the switch on condition.operator
Compared(operator, fieldValue, condValue) ==
    CASE operator = "contains" ->
              ~fieldValue.isNumber /\ Includes(fieldValue.s, ToText(condValue))
      [] operator = "equals" -> fieldValue = condValue
      \* a pattern without special characters is found where it occurs
      [] operator = "matches" ->
              ~fieldValue.isNumber /\ Includes(fieldValue.s, ToText(condValue))
      [] operator \in {">", "<", ">=", "<="} ->
              Related(operator, fieldValue, ToNumber(condValue))
      [] OTHER -> FALSE

\* evaluateCondition(condition, message, username)
EvaluateCondition(condition, message, username) ==
    /\ \E f \in ValidFields : Spelling(f) = condition.field
    /\ Compared(condition.operator,
                FieldValue(CHOOSE f \in ValidFields : Spelling(f) = condition.field,
                           message, username),
                IF condition.value.isNumber THEN condition.value
                ELSE StringValue(Lower(condition.value.s)))

\* faulty variant of EvaluateRule: the logic operators are exchanged
EvaluateRuleSwapped(rule, message, username) ==
    IF rule.logic = "and"
    THEN \E k \in 1..Len(rule.conditions) :
            EvaluateCondition(rule.conditions[k], message, username)
    ELSE \A k \in 1..Len(rule.conditions) :
            EvaluateCondition(rule.conditions[k], message, username)

\* evaluateRule(rule, message, username)
EvaluateRule(rule, message, username) ==
    IF rule.logic = "and"
    THEN \A k \in 1..Len(rule.conditions) :
            EvaluateCondition(rule.conditions[k], message, username)
    ELSE \E k \in 1..Len(rule.conditions) :
            EvaluateCondition(rule.conditions[k], message, username)

\* the rule parsed and its conditions hold
Satisfied(parsed, message, username) ==
    /\ parsed # <<>>
    /\ EvaluateRule(parsed[1], message, username)

\* faulty variant of Triggers: the enabled flag is not looked at
TriggersDisabledToo(rule, message, username) ==
    Satisfied(Parsed(rule.condition), message, username)

\* the body of the loop of evaluate reaches `actions.push` for this rule
Triggers(rule, message, username) ==
    /\ rule.enabled
    /\ Satisfied(Parsed(rule.condition), message, username)

\* `actionParsed ? actionParsed.action : rule.action`
ActionOf(actionParsed, rule) ==
    IF actionParsed # <<>> THEN actionParsed[1].action ELSE rule.action

\* the action evaluate pushes for a rule
PushedAction(rule) == ActionOf(Parsed(rule.action), rule)

\* ModerationRuleEngine.evaluate(message, username) over the rules `rs`,
\* which are in the insertion order of the Map
Evaluate(rs, message, username) ==
    LET hit == SelectSeq(rs, LAMBDA rule : Triggers(rule, message, username))
    IN [k \in 1..Len(hit) |-> PushedAction(hit[k])]

\* position of the rule with this id in the Map, 0 when it has none
RuleAt(rs, id) ==
    IF \E k \in 1..Len(rs) : rs[k].id = id
    THEN CHOOSE k \in 1..Len(rs) : rs[k].id = id
    ELSE 0

\* the step is a call of a method of the moderation engine or of the
\* command parser
Library(op, arg, value) ==
    /\ sync' = [op |-> op, arg |-> arg, value |-> value, threw |-> FALSE]
    /\ ret' = "none"
    /\ UNCHANGED <<messages, messagesByRoom, readReceiptCounts, lock, heap, now,
                   calls, receipts, applied, registry>>
    /\ Offline

\* `!parsed || !this.parser.validate(parsed)` is false
Valid(parsed) == parsed # <<>> /\ DslValidate(parsed[1])

\* faulty variant of Admitted: a rule that parses is admitted unvalidated
AdmittedUnvalidated(rule) == Parsed(rule.condition) # <<>>

\* the test of addRule: the condition parses and the parsed rule is valid
Admitted(rule) == Valid(Parsed(rule.condition))

\* ModerationRuleEngine.addRule(rule)
AddRule(rule) ==
    /\ rules' = IF ~Admitted(rule) THEN rules
                ELSE IF RuleAt(rules, rule.id) = 0 THEN Append(rules, rule)
                ELSE [rules EXCEPT ![RuleAt(rules, rule.id)] = rule]
    /\ Library("addRule", <<rule>>, Admitted(rule))

\* ModerationRuleEngine.removeRule(ruleId)
RemoveRule(ruleId) ==
    /\ rules' = SelectSeq(rules, LAMBDA rule : rule.id # ruleId)
    /\ Library("removeRule", <<ruleId>>, RuleAt(rules, ruleId) # 0)

\* ModerationRuleEngine.toggleRule(ruleId, enabled)
ToggleRule(ruleId, enabled) ==
    /\ rules' = IF RuleAt(rules, ruleId) = 0 THEN rules
                ELSE [rules EXCEPT ![RuleAt(rules, ruleId)].enabled = enabled]
    /\ Library("toggleRule", <<ruleId, enabled>>, RuleAt(rules, ruleId) # 0)

\* a call of evaluate(message, username)
EvaluateCall(message, username) ==
    /\ Library("evaluate", <<message, username>>, Evaluate(rules, message, username))
    /\ UNCHANGED rules

(* ------------------------------- server -------------------------------- *)
\* socket.emit, io.to(room).emit and socket.broadcast.to(room).emit
ToSocket(socket, name, data) == [to |-> "socket", target |-> socket, event |-> name, data |-> data]
ToRoom(room, name, data) == [to |-> "room", target |-> room, event |-> name, data |-> data]
ToOthers(room, name, data) == [to |-> "others", target |-> room, event |-> name, data |-> data]

\* the step ran the handler of socket event `on` up to its first pending await
Handled(on, socket, data, emits) ==
    event' = [on |-> on, socket |-> socket, data |-> data, emits |-> emits]

\* the step calls no method of a repository
Quiet == Registry("none", <<>>, <<>>, FALSE) /\ UNCHANGED registry

\* the string with these characters
Text(cs) == CHOOSE t \in Vocabulary : Spelling(t) = cs

\* args.join(' ')
RECURSIVE Join(_)
Join(args) ==
    IF Len(args) = 0 THEN <<>>
    ELSE IF Len(args) = 1 THEN args[1]
    ELSE args[1] \o <<" ">> \o Join(Tail(args))

\* Math.random().toString(36).substr(2, 9), for the suffixes of the model
SuffixText(r) == <<<<"k", "7", "q", "3", "z">>[r]>>

\* generateId(): `${Date.now()}-${suffix}`
IdText(id) == NumberText(id[1]) \o <<"-">> \o SuffixText(id[2])

\* a key no message is stored under
Unstored == <<0, 0>>

\* the key of the store a messageId argument denotes
MessageId(arg) ==
    IF arg = <<>> THEN NoId
    ELSE IF \E id \in DOMAIN messages : IdText(id) = arg
    THEN CHOOSE id \in DOMAIN messages : IdText(id) = arg
    ELSE Unstored

\* getRoomUsers(room), as the set of socket ids
GetRoomUsers(us, room) == {id \in DOMAIN us : us[id].room = room}

\* socket.on("joinRoom")
JoinRoom(socket, username, room) ==
    /\ UNCHANGED <<sanctioned, continuations, rules>>
    /\ IF username = Empty \/ room = Empty
       THEN /\ Quiet
            /\ Handled("joinRoom", socket, <<username, room>>,
                       <<ToSocket(socket, "error", "An error occurred while joining the room")>>)
       ELSE /\ UserJoin(socket, username, room, "user")
            /\ Handled("joinRoom", socket, <<username, room>>,
                       IF sync'.threw
                       THEN <<ToSocket(socket, "error", "An error occurred while joining the room")>>
                       ELSE IF sync'.value = Taken
                       THEN <<ToSocket(socket, "usernameError", Taken)>>
                       ELSE <<ToSocket(socket, "message", "Welcome to XeroxChat!"),
                              ToOthers(room, "message", <<username, "has joined the chat!">>),
                              ToRoom(room, "roomUsers", GetRoomUsers(users', room))>>)

\* socket.on("disconnect")
Disconnect(socket) ==
    /\ UNCHANGED <<sanctioned, continuations, rules>>
    /\ UserLeave(socket)
    /\ Handled("disconnect", socket, <<>>,
               IF socket \in DOMAIN users /\ ~sync'.threw
               THEN <<ToRoom(users[socket].room, "message",
                             <<users[socket].username, "has left the chat!">>),
                      ToRoom(users[socket].room, "roomUsers",
                             GetRoomUsers(users', users[socket].room))>>
               ELSE <<>>)

\* the usage message of a command that fails validate
UsageError(type) ==
    CASE type = "edit" -> "Invalid /edit command. Usage: /edit <messageId> <newText>"
      [] type = "delete" -> "Invalid /delete command. Usage: /delete <messageId>"
      [] type = "mute" -> "Invalid /mute command. Usage: /mute <username>"
      [] type = "ban" -> "Invalid /ban command. Usage: /ban <username>"
      [] type = "reply" -> "Invalid /reply command. Usage: /reply <messageId> <text>"
      [] OTHER -> "Invalid command syntax"

\* a handler stops with these emits before it calls a repository
Refuse(socket, msg, emits) ==
    /\ Quiet
    /\ Handled("chatMessage", socket, msg, emits)
    /\ UNCHANGED <<sanctioned, continuations>>

\* a handler awaits the call of the message repository in slot c: when the
\* call threw in its precondition checks the catch block runs instead
Await(c, socket, msg, handler, room, warn, failure) ==
    /\ sync' = NoCall
    /\ UNCHANGED <<registry, sanctioned>>
    /\ IF ret' = "Precondition"
       THEN /\ Handled("chatMessage", socket, msg, <<ToSocket(socket, "error", failure)>>)
            /\ UNCHANGED continuations
       ELSE /\ Handled("chatMessage", socket, msg, <<>>)
            /\ continuations' = [continuations EXCEPT ![c] =
                                    [handler |-> handler, socket |-> socket,
                                     room |-> room, warn |-> warn]]

\* `user.role !== 'admin' && user.role !== 'moderator'` is false
MayMute(user) == user.role \in {"admin", "moderator"}

\* faulty variant of MayBan: moderators may ban too
MayBanModerators(user) == user.role \in {"admin", "moderator"}

\* `user.role !== 'admin'` is false
MayBan(user) == user.role = "admin"

\* handleMuteCommand(socket, args, user)
HandleMuteCommand(socket, msg, args, user) ==
    IF ~MayMute(user)
    THEN Refuse(socket, msg, <<ToSocket(socket, "error", "You don't have permission to mute users")>>)
    ELSE /\ MuteUser(Text(args[1]))
         /\ UNCHANGED continuations
         /\ IF sync'.value = "true"
            THEN /\ Handled("chatMessage", socket, msg,
                            <<ToRoom(user.room, "message", <<Text(args[1]), "has been muted">>)>>)
                 /\ sanctioned' = [sanctioned EXCEPT !.muted = @ \cup {Lower(args[1])}]
            ELSE /\ Handled("chatMessage", socket, msg,
                            <<ToSocket(socket, "error", <<"User", Text(args[1]), "not found">>)>>)
                 /\ UNCHANGED sanctioned

\* handleBanCommand(socket, args, user)
HandleBanCommand(socket, msg, args, user) ==
    IF ~MayBan(user)
    THEN Refuse(socket, msg, <<ToSocket(socket, "error", "You don't have permission to ban users")>>)
    ELSE /\ BanUser(Text(args[1]))
         /\ UNCHANGED continuations
         /\ IF sync'.value = "true"
            THEN /\ Handled("chatMessage", socket, msg,
                            <<ToRoom(user.room, "message", <<Text(args[1]), "has been banned">>)>>)
                 /\ sanctioned' = [sanctioned EXCEPT !.banned = @ \cup {Lower(args[1])}]
            ELSE /\ Handled("chatMessage", socket, msg,
                            <<ToSocket(socket, "error", <<"User", Text(args[1]), "not found">>)>>)
                 /\ UNCHANGED sanctioned

\* handleEditCommand(socket, args, user) up to the await
HandleEditCommand(socket, msg, args, user) ==
    LET newText == Trim(Join(Tail(args)))
    IN IF newText = <<>>
       THEN Refuse(socket, msg, <<ToSocket(socket, "error", "Cannot edit message with empty text. Usage: /edit <messageId> <newText>")>>)
       ELSE \E c \in Calls :
               /\ EditMessage(c, MessageId(args[1]), Text(newText), user.username)
               /\ Await(c, socket, msg, "edit", user.room, FALSE, "Failed to edit message")

\* handleDeleteCommand(socket, args, user) up to the await
HandleDeleteCommand(socket, msg, args, user) ==
    \E c \in Calls :
        /\ DeleteMessage(c, MessageId(args[1]), user.username)
        /\ Await(c, socket, msg, "delete", user.room, FALSE,
                 "An error occurred while deleting the message")

\* handleReplyCommand(socket, args, user) up to the await
HandleReplyCommand(socket, msg, args, user) ==
    \E c \in Calls :
        /\ AddMessage(c, user.username, Text(Join(Tail(args))), user.room,
                      MessageId(args[1]))
        /\ Await(c, socket, msg, "reply", user.room, FALSE,
                 "Could not send reply. Parent message may not exist.")

\* handleCommand after `commandParser.parse(msg)`
Dispatched(socket, msg, user, parsedCommand) ==
    IF ~Validate(parsedCommand)
    THEN Refuse(socket, msg, <<ToSocket(socket, "error", UsageError(parsedCommand.type))>>)
    ELSE CASE parsedCommand.type = "edit" ->
                 HandleEditCommand(socket, msg, parsedCommand.args, user)
           [] parsedCommand.type = "delete" ->
                 HandleDeleteCommand(socket, msg, parsedCommand.args, user)
           [] parsedCommand.type = "mute" ->
                 HandleMuteCommand(socket, msg, parsedCommand.args, user)
           [] parsedCommand.type = "ban" ->
                 HandleBanCommand(socket, msg, parsedCommand.args, user)
           [] parsedCommand.type = "reply" ->
                 HandleReplyCommand(socket, msg, parsedCommand.args, user)

\* handleCommand(socket, msg, user)
HandleCommand(socket, msg, user) ==
    Dispatched(socket, msg, user, Parse(Spelling(msg)))

\* faulty variant of Blocked: the actions are not looked at
BlockedNever(actions) == FALSE

\* `actions.includes('delete')`
Blocked(actions) == Spelling("delete") \in Range(actions)

\* `user.muted` is truthy
Silenced(user) == user.muted

\* the chatMessage handler after `moderationEngine.evaluate(msg, user.username)`
Moderated(socket, msg, user, actions) ==
    IF Blocked(actions)
    THEN Refuse(socket, msg, <<ToSocket(socket, "error", "Your message was blocked by moderation rules")>>)
    ELSE \E c \in Calls :
            /\ AddMessage(c, user.username, msg, user.room, NoId)
            /\ Await(c, socket, msg, "chatMessage", user.room,
                     Spelling("warn") \in Range(actions),
                     "An error occurred while sending the message")

\* the chatMessage handler once getCurrentUser has found the user
Sent(socket, msg, user) ==
    IF Silenced(user)
    THEN Refuse(socket, msg, <<ToSocket(socket, "error", "You are muted and cannot send messages")>>)
    ELSE IF user.banned
    THEN Refuse(socket, msg, <<ToSocket(socket, "error", "You are banned from this chat")>>)
    ELSE IF StartsWith(Spelling(msg), <<"/">>)
    THEN HandleCommand(socket, msg, user)
    ELSE Moderated(socket, msg, user,
                   Evaluate(rules, Spelling(msg), Spelling(user.username)))

\* socket.on("chatMessage") up to its first pending await
ChatMessage(socket, msg) ==
    /\ UNCHANGED rules
    /\ IF socket \notin DOMAIN users THEN Refuse(socket, msg, <<>>)
       ELSE Sent(socket, msg, users[socket])

\* faulty variant of Falsy: the result of the call is not tested
FalsyNever(result) == FALSE

\* `!editedMessage` and `!success`: the call returned null or false
Falsy(result) == result \in {"null", "false"}

\* what the handler waiting on slot c emits when the call has ended with ret'
Resumed(c) ==
    LET k == continuations[c]
        id == calls[c].id
        done == IF calls[c].op = "add" THEN heap'[Len(heap')] ELSE
                IF Has(id) THEN heap'[messages[id]] ELSE <<>>
    IN CASE k.handler = "chatMessage" ->
              IF ret' = "ok"
              THEN <<ToRoom(k.room, "message", [id |-> done.id, username |-> done.username,
                                               text |-> done.text])>>
                      \o (IF k.warn THEN <<ToSocket(k.socket, "warning",
                                                    "Your message triggered a moderation warning")>>
                          ELSE <<>>)
              ELSE <<ToSocket(k.socket, "error", "An error occurred while sending the message")>>
         [] k.handler = "reply" ->
              IF ret' = "ok"
              THEN <<ToRoom(k.room, "messageReply", [id |-> done.id, username |-> done.username,
                                                    text |-> done.text, parentId |-> done.parentId])>>
              ELSE <<ToSocket(k.socket, "error", "Could not send reply. Parent message may not exist.")>>
         [] k.handler = "edit" ->
              IF ret' \in Thrown
              THEN IF ~Has(id) \/ ret' = "Invariant"
                   THEN <<ToSocket(k.socket, "error", "Message not found.")>>
                   ELSE IF ret' = "Precondition"
                   THEN <<ToSocket(k.socket, "error", "Cannot edit a deleted message.")>>
                   ELSE <<ToSocket(k.socket, "error", "Failed to edit message")>>
              ELSE IF Falsy(ret')
              THEN <<ToSocket(k.socket, "error", "Could not edit message. You can only edit your own messages.")>>
              ELSE <<ToRoom(k.room, "messageEdited", [id |-> done.id, text |-> done.text])>>
         [] k.handler = "delete" ->
              IF ret' \in Thrown
              THEN IF ~Has(id) \/ ret' = "Invariant"
                   THEN <<ToSocket(k.socket, "error", "Message not found.")>>
                   ELSE <<ToSocket(k.socket, "error", "An error occurred while deleting the message")>>
              ELSE IF Falsy(ret')
              THEN <<ToSocket(k.socket, "error", "Could not delete message. You can only delete your own messages.")>>
              ELSE <<ToRoom(k.room, "messageDeleted", [id |-> id])>>
         [] OTHER -> <<>>

\* the rest of a handler: the call it awaited ends and the handler emits
Resume(c) ==
    /\ sync' = NoCall
    /\ UNCHANGED <<registry, sanctioned, rules>>
    /\ event' = [on |-> "resume", socket |-> continuations[c].socket,
                 data |-> continuations[c].handler, emits |-> Resumed(c)]
    /\ continuations' = [continuations EXCEPT ![c] = NoContinuation]

(* ------------------------- bounds of a scenario ------------------------ *)
\* fewer than `cap` objects are allocated or about to be
RoomForAdd(cap) == Len(heap) + Cardinality(Pending("add")) < cap

\* the message has had, or is about to have, fewer than `cap` edits
RoomForEdit(messageId, cap) ==
    Has(messageId) =>
        Len(heap[messages[messageId]].editHistory)
          + Cardinality({d \in Pending("edit") : calls[d].id = messageId}) < cap

\* the id has had, or is about to have, fewer than `cap` read receipts
RoomForReceipt(messageId, cap) ==
    Count(messageId)
      + Cardinality({d \in Pending("incr") : calls[d].id = messageId}) < cap

\* no message has been added, or is about to be, since the last clear()
StoreUnused == heap = <<>> /\ Pending("add") = {}

\* an id that is in the store at some times and not at others
SomeId == <<1, 1>>

\* the caller awaits every call before it makes the next
Sequential == \A c \in Calls : calls[c].pc = "idle"

(* --------------------------- specifications ---------------------------- *)
\* every operation of the repository, interleaved
Next ==
    \/ Tick /\ Plain
    \/ Clear /\ Plain
    \/ \E c \in Calls : Poll(c) /\ Plain
    \/ \E c \in Calls, u \in Authors \cup {Empty}, t \in Texts \cup {Empty},
          r \in Rooms \cup {Empty}, p \in IdUniverse \cup {NoId} :
          RoomForAdd(MaxMsgs) /\ AddMessage(c, u, t, r, p) /\ Plain
    \/ \E c \in Calls : AddBody(c) /\ Plain
    \/ \E c \in Calls, id \in IdUniverse \cup {NoId}, t \in {"b", Empty}, u \in Users :
          RoomForEdit(id, MaxEdits) /\ EditMessage(c, id, t, u) /\ Plain
    \/ \E c \in Calls : EditBody(c) /\ Plain
    \/ \E c \in Calls, id \in IdUniverse \cup {NoId}, u \in Users :
          DeleteMessage(c, id, u) /\ Plain
    \/ \E c \in Calls : DeleteBody(c) /\ Plain
    \/ \E c \in Calls :
          RoomForReceipt(SomeId, MaxReceipts) /\ IncrementReadReceipt(c, SomeId) /\ Plain
    \/ \E c \in Calls : IncrementBody(c) /\ Plain

Spec == Init /\ [][Next]_vars

\* the editing scenario: one message at a time, concurrent edits and deletes
\* of it by its author and by somebody else, clear()
NextEdits ==
    \/ Clear /\ Plain
    \/ \E c \in Calls : Poll(c) /\ Plain
    \/ \E c \in Calls, u \in Authors, t \in Texts :
          StoreUnused /\ AddMessage(c, u, t, "r1", NoId) /\ Plain
    \/ \E c \in Calls : AddBody(c) /\ Plain
    \/ \E c \in Calls, id \in DOMAIN messages \cup {SomeId}, t \in NewTexts,
          u \in Users :
          RoomForEdit(id, MaxChain) /\ EditMessage(c, id, t, u) /\ Plain
    \/ \E c \in Calls : EditBody(c) /\ Plain
    \/ \E c \in Calls, id \in DOMAIN messages \cup {SomeId}, u \in Users :
          DeleteMessage(c, id, u) /\ Plain
    \/ \E c \in Calls : DeleteBody(c) /\ Plain

SpecEdits == Init /\ [][NextEdits]_vars

\* the read-receipt scenario: one message at a time, concurrent increments
\* of its id, of another id and of the empty id, clear()
NextReceipts ==
    \/ Clear /\ Plain
    \/ \E c \in Calls : Poll(c) /\ Plain
    \/ \E c \in Calls, u \in Authors, t \in Texts :
          StoreUnused /\ AddMessage(c, u, t, "r1", NoId) /\ Plain
    \/ \E c \in Calls : AddBody(c) /\ Plain
    \/ \E c \in Calls, id \in DOMAIN messages \cup {SomeId, NoId} :
          RoomForReceipt(id, MaxBurst) /\ IncrementReadReceipt(c, id) /\ Plain
    \/ \E c \in Calls : IncrementBody(c) /\ Plain

SpecReceipts == Init /\ [][NextReceipts]_vars

\* the thread scenario: messages and replies to them in one room, written
\* and deleted by one author one call at a time, and every read operation
NextThreads ==
    \/ \E c \in Calls, t \in ThreadTexts, p \in DOMAIN messages \cup {NoId} :
          Sequential /\ RoomForAdd(MaxThread) /\ AddMessage(c, "alice", t, "r1", p) /\ Plain
    \/ \E c \in Calls, r \in 1..MaxSuffix : AddBodyWith(c, r) /\ Plain
    \/ \E c \in Calls, id \in DOMAIN messages :
          Sequential /\ DeleteMessage(c, id, "alice") /\ Plain
    \/ \E c \in Calls : DeleteBody(c) /\ Plain
    \/ \E id \in DOMAIN messages \cup {SomeId} : GetMessageCall(id)
    \/ GetMessagesForRoomCall("r1")
    \/ \E id \in DOMAIN messages \cup {SomeId} : GetMessageThreadCall(id)
    \/ SearchMessagesCall(Keyword, "r1")
    \/ \E id \in DOMAIN messages \cup {SomeId} : GetThreadDepthCall(id)
    \/ \E id \in DOMAIN messages \cup {SomeId} : GetReadReceiptCountCall(id)

SpecThreads == Init /\ [][NextThreads]_vars

\* the history scenario: one message at a time, concurrent edits and deletes
\* of it by its author while the clock advances, clear()
NextHistory ==
    \/ Tick /\ Plain
    \/ Clear /\ Plain
    \/ \E c \in Calls : Poll(c) /\ Plain
    \/ \E c \in Calls, u \in Authors, t \in Texts :
          StoreUnused /\ AddMessage(c, u, t, "r1", NoId) /\ Plain
    \/ \E c \in Calls : AddBody(c) /\ Plain
    \/ \E c \in Calls, id \in DOMAIN messages, u \in Authors :
          RoomForEdit(id, MaxChain) /\ EditMessage(c, id, "b", u) /\ Plain
    \/ \E c \in Calls : EditBody(c) /\ Plain
    \/ \E c \in Calls, id \in DOMAIN messages, u \in Authors :
          DeleteMessage(c, id, u) /\ Plain
    \/ \E c \in Calls : DeleteBody(c) /\ Plain

SpecHistory == Init /\ [][NextHistory]_vars

\* the room scenario: messages in two rooms, written, edited and deleted by
\* one author one call at a time while the clock advances, and listings
NextRooms ==
    \/ Tick /\ Plain
    \/ \E c \in Calls, r \in TwoRooms :
          Sequential /\ RoomForAdd(MaxMsgs) /\ AddMessage(c, "alice", "a", r, NoId) /\ Plain
    \/ \E c \in Calls, r \in 1..MaxSuffix : AddBodyWith(c, r) /\ Plain
    \/ \E c \in Calls, id \in DOMAIN messages :
          Sequential /\ RoomForEdit(id, MaxEdits) /\ EditMessage(c, id, "b", "alice") /\ Plain
    \/ \E c \in Calls : EditBody(c) /\ Plain
    \/ \E c \in Calls, id \in DOMAIN messages :
          Sequential /\ DeleteMessage(c, id, "alice") /\ Plain
    \/ \E c \in Calls : DeleteBody(c) /\ Plain
    \/ \E r \in TwoRooms : GetMessagesForRoomCall(r)

SpecRooms == Init /\ [][NextRooms]_vars

\* the search scenario: messages and replies to them in two rooms, a reply
\* being in any room whatever the room of its parent, written and deleted by
\* one author one call at a time, and searches of either room
NextSearch ==
    \/ \E c \in Calls, r \in TwoRooms, p \in DOMAIN messages \cup {NoId} :
          Sequential /\ RoomForAdd(MaxThread) /\ AddMessage(c, "alice", "a", r, p) /\ Plain
    \/ \E c \in Calls, r \in 1..MaxSuffix : AddBodyWith(c, r) /\ Plain
    \/ \E c \in Calls, id \in DOMAIN messages :
          Sequential /\ DeleteMessage(c, id, "alice") /\ Plain
    \/ \E c \in Calls : DeleteBody(c) /\ Plain
    \/ \E r \in TwoRooms : SearchMessagesCall("a", r)

SpecSearch == Init /\ [][NextSearch]_vars

\* the user registry: joins, leaves, mutes, bans and clear()
NextUsers ==
    \/ \E id \in SocketIds \cup {Empty}, n \in Names \cup {Empty},
          r \in Rooms \cup {Empty}, role \in Roles :
          UserJoin(id, n, r, role) /\ Direct
    \/ \E id \in SocketIds : UserLeave(id) /\ Direct
    \/ \E n \in Names : MuteUser(n) /\ Direct
    \/ \E n \in Names : UnmuteUser(n) /\ Direct
    \/ \E n \in Names : BanUser(n) /\ Direct
    \/ ClearUsers /\ Direct

SpecUsers == Init /\ [][NextUsers]_vars

\* the command parser applied to the inputs made of at most MaxPieces pieces,
\* and validate applied to what parse returns and to commands built by hand
Pieces == {<<"/">>, <<"/">> \o Spelling("ban"), <<"/">> \o Spelling("edit"),
           <<" ">>, <<"1">>, <<"-">>, <<"k">>, <<"'">>}

RECURSIVE Concatenations(_)
Concatenations(n) ==
    IF n = 0 THEN {<<>>}
    ELSE Concatenations(n - 1)
            \cup {cs \o piece : cs \in Concatenations(n - 1), piece \in Pieces}

CommandTypes == ValidCommands \cup {"unknown"}

HandMadeCommands ==
    {[type |-> t, args |-> [k \in 1..n |-> <<"k">>]] : t \in CommandTypes, n \in 0..MaxArgs}

Given(op, x) == [op |-> op, arg |-> <<x>>, value |-> <<>>, threw |-> FALSE]

InitParser ==
    /\ Constructed
    /\ sync \in {Given("input", input) : input \in Concatenations(MaxPieces)}
                \cup {Given("command", command) : command \in HandMadeCommands}

ParseCall ==
    /\ sync.op = "input"
    /\ Library("parse", sync.arg, Parse(sync.arg[1]))
    /\ UNCHANGED rules

ValidateCall ==
    /\ sync.op \in {"parse", "command"}
    /\ LET command == IF sync.op = "parse" THEN sync.value ELSE sync.arg[1]
       IN Library("validate", <<command>>, Validate(command))
    /\ UNCHANGED rules

NextParser == ParseCall \/ ValidateCall

SpecParser == InitParser /\ [][NextParser]_vars

\* the ids generateId can produce: `${Date.now()}-${suffix}`
GeneratedIds == {IdText(<<t, r>>) : t \in 1..MaxStamp, r \in 1..5}

\* '/delete ' + id
DeleteCommand(id) == <<"/">> \o Spelling("delete") \o <<" ">> \o id

\* '/edit ' + id + ' x'
EditCommand(id) == <<"/">> \o Spelling("edit") \o <<" ">> \o id \o <<" ", "x">>

\* the command parser on the commands that name a generated id
InitIds ==
    /\ Constructed
    /\ sync \in {Given("id", id) : id \in GeneratedIds}

ParseDeleteCall ==
    /\ sync.op = "id"
    /\ Library("parse", <<DeleteCommand(sync.arg[1])>>, Parse(DeleteCommand(sync.arg[1])))
    /\ UNCHANGED rules

ParseEditCall ==
    /\ sync.op = "id"
    /\ Library("parse", <<EditCommand(sync.arg[1])>>, Parse(EditCommand(sync.arg[1])))
    /\ UNCHANGED rules

NextIds == ParseDeleteCall \/ ParseEditCall \/ ValidateCall

SpecIds == InitIds /\ [][NextIds]_vars

\* the moderation engine on its own: rules with two ids, conditions that
\* are admitted and conditions that are not, texts with and without blanks
RuleIds == {"r1", "r2"}

RuleActions == {Spelling("warn")}

EngineRules ==
    [id : RuleIds, condition : Conditions, action : RuleActions, enabled : BOOLEAN]

EngineTexts == {Spelling(Empty), Spelling("a"), Spelling(" a"), Spelling("a b"),
                Spelling("b")}

EngineUsers == {Spelling("bob"), Spelling("amy")}

NextEngine ==
    \/ \E rule \in EngineRules : AddRule(rule)
    \/ \E id \in RuleIds : RemoveRule(id)
    \/ \E id \in RuleIds, enabled \in BOOLEAN : ToggleRule(id, enabled)
    \/ \E message \in EngineTexts, username \in EngineUsers :
          EvaluateCall(message, username)

SpecEngine == Init /\ [][NextEngine]_vars

\* the server: sockets join as bob, chat and disconnect; amy is registered
\* in code, as one of the staff, on the first socket; a rule that blocks
\* texts is added to the engine
ServerNames == {"bob"}
Staff == {"moderator", "admin"}
ChatInputs == {"a", Empty, "/mute", "/mute bob", "/ban bob"}

BlockRule ==
    [id |-> "block",
     condition |-> Phrase(<<"when", "message", "contains", "'a'", "then", "delete">>),
     action |-> Spelling("delete"), enabled |-> TRUE]

\* the state once the server module is loaded
InitServer == Built /\ rules = <<SpamDetection>> /\ sync = NoCall

\* userRepository.userJoin(id, username, room, role), called in code
Register(socket, username, room, role) ==
    UserJoin(socket, username, room, role) /\ Direct

\* userRepository.unmuteUser(username), called in code
Unmute(username) ==
    /\ UnmuteUser(username)
    /\ event' = NoEvent
    /\ UNCHANGED <<continuations, rules>>
    /\ sanctioned' = IF sync'.value = "true"
                     THEN [sanctioned EXCEPT !.muted = @ \ {ToLowerCase(username)}]
                     ELSE sanctioned

NextServer ==
    \/ Tick /\ Plain
    \/ \E c \in Calls : Poll(c) /\ Plain
    \/ \E c \in Calls : AddBody(c) /\ Resume(c)
    \/ \E socket \in SocketIds, username \in ServerNames \cup {Empty} :
          JoinRoom(socket, username, "r1")
    \/ \E socket \in SocketIds : Disconnect(socket)
    \/ \E socket \in SocketIds, msg \in ChatInputs :
          /\ ~StartsWith(Spelling(msg), <<"/">>) => RoomForAdd(MaxMsgs)
          /\ ChatMessage(socket, msg)
    \/ \E role \in Staff : Register("s1", "amy", "r1", role)
    \/ Unmute("bob")
    \/ AddRule(BlockRule)

SpecServer == InitServer /\ [][NextServer]_vars
\* the command path of the server: bob and amy join the room, write the
\* text 'a' and edit, delete and reply to the message with id 1-k, one
\* handler at a time, a rule that blocks the text being added to the engine
\* at some time
CommandSockets == {<<"s1", "bob">>, <<"s2", "amy">>}
CommandInputs ==
    {"a", "/edit \"1-k\" a", "/delete \"1-k\"", "/delete \"\"", "/reply \"1-k\" a"}

\* the store has room for the message the input adds, and the message the
\* input edits has had fewer than MaxEdits edits
RoomForInput(msg) ==
    /\ msg \in {"a", "/reply \"1-k\" a"} => RoomForAdd(MaxMsgs)
    /\ msg = "/edit \"1-k\" a" => RoomForEdit(SomeId, MaxEdits)

NextCommands ==
    \/ \E c \in Calls : AddBody(c) /\ Resume(c)
    \/ \E c \in Calls : EditBody(c) /\ Resume(c)
    \/ \E c \in Calls : DeleteBody(c) /\ Resume(c)
    \/ \E who \in CommandSockets : JoinRoom(who[1], who[2], "r1")
    \/ \E socket \in SocketIds, msg \in CommandInputs :
          Sequential /\ RoomForInput(msg) /\ ChatMessage(socket, msg)
    \/ AddRule(BlockRule)

SpecCommands == InitServer /\ [][NextCommands]_vars

\* the lock scenario: adds, edits, deletes and read receipts of one author
\* on the message with id 1-k, of which some throw inside the critical
\* section (the id is not in the store, the message is deleted), any number
\* of them started while another holds the lock, and clear()
NextLock ==
    \/ Clear /\ Plain
    \/ \E c \in Calls : Poll(c) /\ Plain
    \/ \E c \in Calls : StoreUnused /\ AddMessage(c, "alice", "a", "r1", NoId) /\ Plain
    \/ \E c \in Calls : AddBody(c) /\ Plain
    \/ \E c \in Calls :
          RoomForEdit(SomeId, MaxEdits) /\ EditMessage(c, SomeId, "b", "alice") /\ Plain
    \/ \E c \in Calls : EditBody(c) /\ Plain
    \/ \E c \in Calls : DeleteMessage(c, SomeId, "alice") /\ Plain
    \/ \E c \in Calls : DeleteBody(c) /\ Plain
    \/ \E c \in Calls :
          RoomForReceipt(SomeId, MaxReceipts) /\ IncrementReadReceipt(c, SomeId) /\ Plain
    \/ \E c \in Calls : IncrementBody(c) /\ Plain

\* The event loop runs the continuation of a call that has acquired the lock
\* as a microtask, before anything else: a critical section that can run
\* does run (weak fairness). The timer of a waiting call fires again and
\* again, each time in a task of its own, and whenever the lock is free at
\* such a time the waiter takes it: a waiter is not passed over for ever
\* while the lock keeps being released (strong fairness of the poll).
FairLock ==
    /\ Init
    /\ [][NextLock]_vars
    /\ \A c \in Calls :
          /\ SF_vars(Poll(c) /\ Plain)
          /\ WF_vars(AddBody(c) /\ Plain)
          /\ WF_vars(EditBody(c) /\ Plain)
          /\ WF_vars(DeleteBody(c) /\ Plain)
          /\ WF_vars(IncrementBody(c) /\ Plain)

(* ============================== properties ============================= *)
Holders == {c \in Calls : calls[c].pc = "acquired"}
Waiters == {c \in Calls : calls[c].pc = "waiting"}
\* the step is the critical section of call c
Completes(c) == calls[c].pc = "acquired" /\ calls'[c].pc = "idle"

\* C1: at most one mutating call is between its successful acquireLock and
\* its releaseLock at any time.
MutualExclusion == Cardinality(Holders) <= 1

\* C1 witness: one call holds the lock while another waits for it
ContendedLock == Holders # {} /\ Waiters # {}

\* C2: the lock flag is true exactly while some call is between acquireLock
\* and the end of its critical section: once a critical section has ended,
\* by a return or by a throw, the flag is false, and it is never true while
\* no call holds it.
GuaranteedRelease == lock <=> Holders # {}

\* C2 witness: a critical section has just ended by a failed invariant check
\* and the lock is free
ReleasedAfterThrow == ret = "Invariant" /\ ~lock

\* C3: the values the increments of an id returned since the last clear()
\* are 1, 2, ..., n in this order, and n is what getReadReceiptCount returns.
NoLostReceipt ==
    /\ DOMAIN receipts = DOMAIN readReceiptCounts
    /\ \A id \in DOMAIN receipts :
          /\ Len(receipts[id]) = GetReadReceiptCount(id)
          /\ \A i \in 1..Len(receipts[id]) : receipts[id][i] = i

\* C3 witness: concurrent increments of one id have all completed
BurstCounted ==
    \E id \in DOMAIN receipts :
        /\ GetReadReceiptCount(id) = MaxBurst
        /\ Pending("incr") = {}

\* C4: the ids of the messages addMessage returned are pairwise distinct.
IdsPairwiseDistinct ==
    \A r1, r2 \in DOMAIN heap :
        (r1 # r2 /\ applied[r1].returned /\ applied[r2].returned)
            => heap[r1].id # heap[r2].id

\* C5: once no add is pending, every message addMessage returned (and nobody
\* deleted) is listed by getMessagesForRoom for its room.
NoLostAdd ==
    Pending("add") = {} =>
        \A r \in DOMAIN heap :
            (applied[r].returned /\ ~heap[r].deleted)
                => r \in Range(GetMessagesForRoom(heap[r].room))

\* C6: a message created with text t0 on which the edits t1..tn returned has
\* edited = (n > 0), a history of exactly n entries with the texts
\* t0..t(n-1) in this order, and the text tn (the placeholder once deleted).
EditsFormChain ==
    \A r \in DOMAIN heap :
        LET m == heap[r]
            t == applied[r].texts
            n == Len(t) - 1
        IN /\ Len(m.editHistory) = n
           /\ \A i \in 1..n : m.editHistory[i].text = t[i]
           /\ m.text = IF m.deleted THEN Placeholder ELSE t[n + 1]
           /\ m.edited = (n > 0)

\* C6 witness: MaxChain edits were applied to one message, the last of them
\* changing its text
LongChain ==
    \E r \in DOMAIN heap :
        /\ Len(heap[r].editHistory) = MaxChain
        /\ heap[r].editHistory[MaxChain].text # heap[r].text
        /\ ~heap[r].deleted

StructuralRejection ==
    [][/\ \A c \in Calls :
             (calls[c].pc = "idle" /\ calls'[c].pc # "idle")
             => LET call == calls'[c]
                IN /\ call.op = "add" =>
                        /\ call.username # Empty
                        /\ call.text # Empty
                        /\ call.room # Empty
                        /\ call.id # NoId => Has(call.id)
                   /\ call.op = "edit" => (call.id # NoId /\ call.text # Empty)
       /\ (ret' \in Thrown /\ calls' = calls) => UNCHANGED store
       /\ \A c \in Calls :
             (/\ Completes(c)
              /\ \/ calls[c].op \in {"edit", "delete"} /\ ~Has(calls[c].id)
                 \/ /\ calls[c].op = "edit"
                    /\ Has(calls[c].id)
                    /\ heap[messages[calls[c].id]].deleted)
             => (ret' \in Thrown /\ UNCHANGED store)]_vars

\* C9 witness: an edit of a deleted message has just been rejected
EditOfDeletedRejected ==
    /\ ret = "Precondition"
    /\ ~lock
    /\ \E id \in DOMAIN messages : heap[messages[id]].deleted

\* C8: a message that is deleted stays in the index with deleted = true and
\* the placeholder text for as long as the index is not cleared.
SoftDeletePermanent ==
    [][\A id \in DOMAIN messages :
          (/\ heap[messages[id]].deleted
           /\ heap[messages[id]].text = Placeholder
           /\ messages' # <<>>)
          => /\ id \in DOMAIN messages'
             /\ heap'[messages'[id]].deleted
             /\ heap'[messages'[id]].text = Placeholder]_vars

\* C10: when a reply is inserted into the index, its parent is in the index.
ParentPresentAtInsert ==
    [][Len(heap') = Len(heap) + 1 =>
          LET m == heap'[Len(heap')]
          IN m.parentId # NoId => Has(m.parentId)]_vars

\* C11: whenever a critical section of addMessage has ended (the only states
\* a reader can run in, the section having no await), the message it put in
\* the global index is in the room index of its room and, for a reply, in
\* the reply list of its parent.
AddWholeForReaders ==
    [][\A c \in Calls :
          (Completes(c) /\ calls[c].op = "add")
          => LET ref == Len(heap')
                 m == heap'[ref]
             IN /\ messages'[m.id] = ref
                /\ m.room \in DOMAIN messagesByRoom'
                /\ m.id \in Range(messagesByRoom'[m.room])
                /\ m.parentId # NoId =>
                      /\ m.parentId \in DOMAIN messages'
                      /\ ref \in Range(heap'[messages'[m.parentId]].replies)]_vars
ReadOps == {"getMessage", "getMessagesForRoom", "getMessageThread",
            "searchMessages", "getThreadDepth", "getReadReceiptCount"}

\* C12: a step that is a call of a read operation leaves every message, with
\* its reply list, every index and every counter as it was.
ReadsChangeNothing == [][sync'.op \in ReadOps => UNCHANGED store]_vars

NoDuplicates(seq) == \A i, j \in 1..Len(seq) : i # j => seq[i] # seq[j]

\* the non-deleted messages that were appended to the reply list of one of S
LiveReplies(S) ==
    {r \in DOMAIN heap : ~heap[r].deleted /\ applied[r].under \in S}

\* S and everything reached from it through non-deleted replies
RECURSIVE LiveThread(_, _)
LiveThread(S, fuel) ==
    IF fuel = 0 \/ LiveReplies(S) \subseteq S THEN S
    ELSE LiveThread(S \cup LiveReplies(S), fuel - 1)

\* the non-deleted messages of the room that are in the index
LiveInRoom(room) ==
    {messages[id] : id \in {i \in DOMAIN messages :
                               /\ heap[messages[i]].room = room
                               /\ ~heap[messages[i]].deleted}}

\* C13: what searchMessages returns holds no message twice and holds exactly
\* the messages whose text contains the keyword, case ignored, among the
\* non-deleted messages of the room and what is reached from them through
\* non-deleted replies.
SearchExactlyOnce ==
    (sync.op = "searchMessages" /\ ~sync.threw) =>
        /\ NoDuplicates(sync.value)
        /\ Range(sync.value) =
              {r \in LiveThread(LiveInRoom(sync.arg[2]), Len(heap)) :
                  Includes(ToLowerCase(heap[r].text), ToLowerCase(sync.arg[1]))}

\* C16: what getMessagesForRoom returns holds no message twice, holds exactly
\* the messages of the index that are in the room and not deleted, and is in
\* ascending order of timestamp.
ListedExactly ==
    sync.op = "getMessagesForRoom" =>
        /\ NoDuplicates(sync.value)
        /\ Range(sync.value) = LiveInRoom(sync.arg[1])
        /\ \A i \in 1..(Len(sync.value) - 1) :
              heap[sync.value[i]].timestamp <= heap[sync.value[i + 1]].timestamp

\* C17: the timestamps of the edit history of every message never decrease
\* from one entry to the next, and the timestamp of the message is positive
\* and not before that of its last history entry.
HistoryChronological ==
    \A r \in DOMAIN heap :
        LET m == heap[r]
            n == Len(m.editHistory)
        IN /\ \A i \in 1..(n - 1) :
                 m.editHistory[i].timestamp <= m.editHistory[i + 1].timestamp
           /\ n > 0 => m.timestamp >= m.editHistory[n].timestamp
           /\ m.timestamp > 0

\* C17 witness: a message was edited twice, in a later millisecond than it
\* was written
EditedLater ==
    \E r \in DOMAIN heap :
        /\ Len(heap[r].editHistory) >= 2
        /\ heap[r].editHistory[1].timestamp < heap[r].editHistory[2].timestamp

\* number of levels of non-deleted replies below the messages of S
RECURSIVE LiveLevels(_, _)
LiveLevels(S, fuel) ==
    IF fuel = 0 \/ LiveReplies(S) = {} THEN 0
    ELSE 1 + LiveLevels(LiveReplies(S), fuel - 1)

\* C14: what getThreadDepth returns is -1 for an unknown id and, for a
\* message in the index, 0 when it has no non-deleted reply and otherwise
\* 1 + the largest depth of its non-deleted replies.
DepthByDefinition ==
    (sync.op = "getThreadDepth" /\ ~sync.threw) =>
        sync.value = IF ~Has(sync.arg[1]) THEN -1
                     ELSE LiveLevels({messages[sync.arg[1]]}, Len(heap))

\* the <<parent, reply>> pairs of a tree <<ref, subtrees>>
RECURSIVE TreeEdges(_)
TreeEdges(tree) ==
    UNION {{<<tree[1], tree[2][i][1]>>} \cup TreeEdges(tree[2][i]) :
              i \in 1..Len(tree[2])}

\* C15: getMessageThread returns, and what it returns is undefined for an
\* unknown id and otherwise the message with, below it, exactly the replies
\* that are not deleted and are reached from it through non-deleted replies,
\* each under the message it replied to.
ThreadByDefinition ==
    sync.op = "getMessageThread" =>
        /\ ~sync.threw
        /\ IF ~Has(sync.arg[1]) THEN sync.value = <<>>
           ELSE LET root == messages[sync.arg[1]]
                    below == LiveThread(LiveReplies({root}), Len(heap))
                IN /\ sync.value # <<>>
                   /\ sync.value[1] = root
                   /\ TreeEdges(sync.value) =
                         {<<applied[r].under, r>> : r \in below}
SameIgnoringCase(a, b) == ToLowerCase(a) = ToLowerCase(b)

\* C18: no two active users have names that are equal when case is ignored;
\* a userJoin from a new connection with a name an active user has, case
\* ignored, returns the error value without throwing and registers nothing,
\* and with a name no active user has (any more) it registers the user.
UniqueActiveNames ==
    [][/\ \A a, b \in DOMAIN users' :
             a # b => ~SameIgnoringCase(users'[a].username, users'[b].username)
       /\ (/\ sync'.op = "userJoin"
           /\ sync'.arg[1] # Empty /\ sync'.arg[2] # Empty /\ sync'.arg[3] # Empty
           /\ sync'.arg[1] \notin DOMAIN users)
          => IF \E a \in DOMAIN users :
                   SameIgnoringCase(users[a].username, sync'.arg[2])
             THEN /\ sync'.value = Taken
                  /\ ~sync'.threw
                  /\ UNCHANGED registry
             ELSE /\ sync'.value = "user"
                  /\ sync'.arg[1] \in DOMAIN users'
                  /\ users'[sync'.arg[1]].username = sync'.arg[2]]_vars

\* C18 witness: a join has just been refused because an active user has the
\* name in another spelling
NameRefused ==
    /\ sync.op = "userJoin"
    /\ sync.value = Taken
    /\ \E a \in DOMAIN users :
          /\ users[a].username # sync.arg[2]
          /\ SameIgnoringCase(users[a].username, sync.arg[2])

\* C19: the two indices have the same number of entries, every entry of the
\* username index maps the lowercased name of an active user to the
\* connection id of that user, and every user's room is non-empty.
IndicesConsistent ==
    /\ Cardinality(DOMAIN users) = Cardinality(DOMAIN usernameIndex)
    /\ \A key \in DOMAIN usernameIndex :
          /\ usernameIndex[key] \in DOMAIN users
          /\ users[usernameIndex[key]].id = usernameIndex[key]
          /\ ToLowerCase(users[usernameIndex[key]].username) = key
    /\ \A a \in DOMAIN users : users[a].room # Empty

\* C19 witness: two users are registered, one of them muted and one banned
RegistryInUse ==
    /\ Cardinality(DOMAIN users) = 2
    /\ \E a \in DOMAIN users : users[a].muted
    /\ \E a \in DOMAIN users : users[a].banned
    /\ \E a \in DOMAIN users : users[a].username = "Bob"

\* C20: a userJoin with an empty id, username or room or with a connection id
\* that is registered throws, also when the username is taken as well; and a
\* userJoin that throws or returns the username-taken error changes neither
\* index nor any user record.
FailedJoinChangesNothing ==
    [][sync'.op = "userJoin" =>
          /\ (\/ sync'.arg[1] = Empty \/ sync'.arg[2] = Empty \/ sync'.arg[3] = Empty
              \/ sync'.arg[1] \in DOMAIN users) => sync'.threw
          /\ (sync'.threw \/ sync'.value = Taken) => UNCHANGED registry]_vars

\* C20 witness: a join from a registered connection with a name that is in
\* use has just thrown
RegisteredIdRefused ==
    /\ sync.op = "userJoin"
    /\ sync.threw
    /\ sync.arg[1] \in DOMAIN users
    /\ ToLowerCase(sync.arg[2]) \in DOMAIN usernameIndex
\* the tokens of cs from position i on, as the command grammar describes
\* them: a token that begins with a quote runs to the matching quote, any
\* other token is a maximal run of characters that are not blank
RECURSIVE TokensFrom(_, _)
TokensFrom(cs, i) ==
    IF i > Len(cs) THEN <<>>
    ELSE IF cs[i] \in Blank THEN TokensFrom(cs, i + 1)
    ELSE IF cs[i] \in Quotes
    THEN <<SubSeq(cs, i + 1, StopAt(cs, i + 1, {cs[i]}) - 1)>>
            \o TokensFrom(cs, StopAt(cs, i + 1, {cs[i]}) + 1)
    ELSE <<SubSeq(cs, i, StopAt(cs, i, Blank) - 1)>>
            \o TokensFrom(cs, StopAt(cs, i, Blank))

\* C29: the arguments of parse(input), for an input that starts with '/', are
\* the tokens after the keyword in input order: a quoted token is the text
\* between its quotes, every other token is one maximal run of non-blank
\* characters, whatever it starts with.
ArgumentsAreTokens ==
    (/\ sync.op = "parse"
     /\ StartsWith(sync.arg[1], <<"/">>)
     /\ sync.value.type # "unknown")
        => sync.value.args = TokensFrom(Trim(sync.arg[1]), StopAt(sync.arg[1], 1, Blank))

\* C30: validate returns true exactly for edit and reply with at least two
\* arguments and for delete, mute and ban with exactly one, and an input that
\* does not start with '/', or is just '/', parses to type unknown.
ArityCheck ==
    /\ sync.op = "validate" =>
          (sync.value <=>
              \/ sync.arg[1].type \in {"edit", "reply"} /\ Len(sync.arg[1].args) >= 2
              \/ sync.arg[1].type \in {"delete", "mute", "ban"} /\ Len(sync.arg[1].args) = 1)
    /\ (sync.op = "parse" /\ (~StartsWith(sync.arg[1], <<"/">>) \/ sync.arg[1] = <<"/">>))
          => sync.value.type = "unknown"


\* the condition of a rule parses and the parsed rule passes validate
WellFormed(rule) ==
    /\ Parsed(rule.condition) # <<>>
    /\ DslValidate(Parsed(rule.condition)[1])

\* C25: every rule the engine holds has a condition that parses to a rule
\* that passes validate, and an addRule that returns false leaves the rule
\* map as it was.
OnlyValidRulesAdmitted ==
    [][/\ \A k \in 1..Len(rules') : WellFormed(rules'[k])
       /\ (sync'.op = "addRule" /\ ~sync'.value) => UNCHANGED rules]_vars

\* C25 witness: an addRule has just been refused while the engine holds a rule
RuleRefused == sync.op = "addRule" /\ ~sync.value /\ Len(rules) > 0

\* the rules other than the one with this id
Others(rs, id) == SelectSeq(rs, LAMBDA rule : rule.id # id)

\* C26: evaluate returns, in the order of the rule map, the action of
\* exactly the rules that are in the engine, enabled, and whose condition
\* holds; removeRule takes the rule out, toggleRule sets its flag, and both
\* return false for an unknown id and change nothing.
OnlyEnabledPresentRulesTrigger ==
    [][/\ sync'.op = "evaluate" =>
             LET hit == SelectSeq(rules, LAMBDA rule :
                           /\ rule.enabled
                           /\ EvaluateRule(Parsed(rule.condition)[1],
                                           sync'.arg[1], sync'.arg[2]))
             IN sync'.value = [k \in 1..Len(hit) |-> hit[k].action]
       /\ sync'.op = "removeRule" =>
             /\ sync'.value = (RuleAt(rules, sync'.arg[1]) # 0)
             /\ rules' = Others(rules, sync'.arg[1])
       /\ sync'.op = "toggleRule" =>
             /\ sync'.value = (RuleAt(rules, sync'.arg[1]) # 0)
             /\ Others(rules', sync'.arg[1]) = Others(rules, sync'.arg[1])
             /\ Len(rules') = Len(rules)
             /\ sync'.value => rules'[RuleAt(rules, sync'.arg[1])] =
                    [rules[RuleAt(rules, sync'.arg[1])] EXCEPT !.enabled = sync'.arg[2]]]_vars

\* C26 witness: a rule that has been toggled off stays silent on a text its
\* condition holds for
DisabledRuleSilent ==
    /\ sync.op = "evaluate"
    /\ sync.value = <<>>
    /\ \E k \in 1..Len(rules) :
          /\ ~rules[k].enabled
          /\ EvaluateRule(Parsed(rules[k].condition)[1], sync.arg[1], sync.arg[2])

\* the condition clause of an admitted rule: what stands between `when` and
\* `then` in the normalized rule string
Clause(rule) ==
    LET normalized == Trim(Lower(rule.condition))
    IN SubSeq(normalized, WhenThenMatch(normalized).part, WhenThenMatch(normalized).last)

\* C27: evaluate appends the action of an enabled rule exactly when all of
\* its expressions hold if its condition clause does not contain ' or ', and
\* exactly when at least one holds if it does.
RuleLogic ==
    sync.op = "evaluate" =>
        LET Holds(rule, k) == EvaluateCondition(Parsed(rule.condition)[1].conditions[k],
                                                sync.arg[1], sync.arg[2])
            Size(rule) == Len(Parsed(rule.condition)[1].conditions)
            hit == SelectSeq(rules, LAMBDA rule :
                      /\ rule.enabled
                      /\ IF Includes(Clause(rule), <<" ", "o", "r", " ">>)
                         THEN \E k \in 1..Size(rule) : Holds(rule, k)
                         ELSE \A k \in 1..Size(rule) : Holds(rule, k))
        IN sync.value = [k \in 1..Len(hit) |-> hit[k].action]

\* C27 witness: evaluate has told an 'or' rule from an 'and' rule: one expression
\* of each holds and another does not, and only the 'or' rule's action is returned
LogicTold ==
    /\ sync.op = "evaluate"
    /\ Len(rules) = 2
    /\ Len(sync.value) = 1
    /\ \A k \in 1..2 :
          /\ rules[k].enabled
          /\ Len(Parsed(rules[k].condition)[1].conditions) = 2
          /\ \E i, j \in 1..2 :
                /\ EvaluateCondition(Parsed(rules[k].condition)[1].conditions[i],
                                     sync.arg[1], sync.arg[2])
                /\ ~EvaluateCondition(Parsed(rules[k].condition)[1].conditions[j],
                                      sync.arg[1], sync.arg[2])

\* the number of maximal runs of characters of a text that are not white space
Words(cs) ==
    Cardinality({k \in 1..Len(cs) :
                    /\ cs[k] \notin WhiteSpace
                    /\ (k = 1 \/ cs[k - 1] \in WhiteSpace)})

\* C28: the value a word_count condition compares is the number of words of
\* the message: the rule 'when word_count > 1 then warn', alone in the
\* engine and enabled, yields its action exactly for the texts of more than
\* one word.
WordCountIsWords ==
    (/\ sync.op = "evaluate"
     /\ Len(rules) = 1
     /\ rules[1].enabled
     /\ rules[1].condition = Phrase(<<"when", "word_count", ">", "1", "then", "warn">>))
        => (sync.value = <<rules[1].action>> <=> Words(sync.arg[1]) > 1)

\* C21: a /ban that succeeds disconnects the user it names, and a joinRoom
\* with a username a /ban has succeeded on is rejected: it registers nobody.
BannedCannotRejoin ==
    [][/\ (event'.on = "chatMessage" /\ sync'.op = "banUser" /\ sync'.value = "true")
             => ToLowerCase(sync'.arg[1]) \notin DOMAIN usernameIndex'
       /\ (event'.on = "joinRoom" /\ ToLowerCase(event'.data[1]) \in sanctioned.banned)
             => UNCHANGED registry]_vars

\* C22: a chat message from a user whose name a /mute has succeeded on, with
\* no unmute since, is answered with an error only: no call of the message
\* store is started, nothing is stored and nothing is sent to the room.
MutedCannotSend ==
    [][(/\ event'.on = "chatMessage"
        /\ event'.socket \in DOMAIN users
        /\ ToLowerCase(users[event'.socket].username) \in sanctioned.muted)
          => /\ Len(event'.emits) = 1
             /\ event'.emits[1].to = "socket"
             /\ event'.emits[1].event = "error"
             /\ UNCHANGED <<store, calls>>]_vars

\* C23: a chat message sets a muted flag only when it is a /mute from a
\* moderator or an admin and a banned flag only when it is a /ban from an
\* admin, and a /mute or /ban from a user without that role changes no user
\* record.
RoleBasedPermissions ==
    [][(event'.on = "chatMessage" /\ event'.socket \in DOMAIN users) =>
          LET role == users[event'.socket].role
              type == Parse(Spelling(event'.data)).type
          IN /\ (\E a \in DOMAIN users : users'[a].muted /\ ~users[a].muted)
                    => type = "mute" /\ role \in {"moderator", "admin"}
             /\ (\E a \in DOMAIN users : users'[a].banned /\ ~users[a].banned)
                    => type = "ban" /\ role = "admin"
             /\ (\/ type = "mute" /\ role \notin {"moderator", "admin"}
                 \/ type = "ban" /\ role # "admin")
                    => UNCHANGED registry]_vars

\* C23 witness: a moderator, who could mute bob, has just been refused a ban
\* of bob
ModeratorRefused ==
    /\ event.on = "chatMessage"
    /\ event.socket \in DOMAIN users
    /\ users[event.socket].role = "moderator"
    /\ event.data = "/ban bob"
    /\ event.emits = <<ToSocket(event.socket, "error", "You don't have permission to ban users")>>
    /\ \E a \in DOMAIN users :
          users[a].username = "bob" /\ users[a].muted /\ ~users[a].banned

\* the step handled a chat message that the moderation engine evaluated
Evaluated ==
    /\ event'.on = "chatMessage"
    /\ event'.socket \in DOMAIN users
    /\ ~users[event'.socket].muted
    /\ ~users[event'.socket].banned
    /\ ~StartsWith(Spelling(event'.data), <<"/">>)

\* the actions evaluate returned for it include 'delete'
Deleting ==
    Spelling("delete") \in
        Range(Evaluate(rules, Spelling(event'.data),
                       Spelling(users[event'.socket].username)))

\* the step started nothing and sent nothing to the room
NothingAdded ==
    /\ UNCHANGED <<store, calls, continuations>>
    /\ \A k \in 1..Len(event'.emits) : event'.emits[k].to = "socket"

\* the step started one addMessage of the text for its sender
AddStarted ==
    \E c \in Calls :
        /\ calls[c].pc = "idle"
        /\ calls'[c].pc # "idle"
        /\ calls'[c].op = "add"
        /\ calls'[c].text = event'.data
        /\ calls'[c].username = users[event'.socket].username
        /\ continuations'[c].handler = "chatMessage"
        /\ \A d \in Calls \ {c} : calls'[d] = calls[d] /\ continuations'[d] = continuations[d]

\* the handlers whose addMessage the step completed
Completed ==
    {c \in Calls : /\ continuations[c].handler = "chatMessage"
                   /\ continuations'[c] = NoContinuation}

\* the store gains a message only when the addMessage of a handler completes:
\* one message, with the text and the sender of the call, under its id
AddedOnce ==
    /\ Len(heap') = Len(heap) + Cardinality(Completed)
    /\ Cardinality(Completed) <= 1
    /\ \A c \in Completed :
          LET message == heap'[Len(heap')]
          IN /\ message.text = calls[c].text
             /\ message.username = calls[c].username
             /\ message.room = calls[c].room
             /\ message.id \in DOMAIN messages'
             /\ messages'[message.id] = Len(heap')
             /\ message.id \in Range(messagesByRoom'[message.room])

\* C24, as claimed: an evaluated chat message whose actions include 'delete'
\* starts no addMessage and sends nothing to the room, and every other
\* evaluated chat message is added exactly once.
BlockedElseAddedOnce ==
    [][/\ Evaluated => IF Deleting THEN NothingAdded ELSE AddStarted
       /\ AddedOnce]_vars

\* C24, amended: ... and every other evaluated chat message is added exactly
\* once when its text is not empty; an empty text is refused by addMessage
\* and the sender gets an error.
BlockedElseAddedOnceUnlessEmpty ==
    [][/\ Evaluated =>
             IF Deleting \/ event'.data = Empty THEN NothingAdded ELSE AddStarted
       /\ (Evaluated /\ event'.data = Empty) =>
             event'.emits = <<ToSocket(event'.socket, "error",
                                       "An error occurred while sending the message")>>
       /\ AddedOnce]_vars

\* C24 witness: a message has just been blocked while the store holds the
\* same text, sent before the rule was there
MessageBlocked ==
    /\ event.on = "chatMessage"
    /\ event.emits = <<ToSocket(event.socket, "error",
                                "Your message was blocked by moderation rules")>>
    /\ \E k \in 1..Len(heap) : heap[k].text = event.data

\* C40: every id with a read-receipt count greater than 0 is the id of a
\* message in the index, so an incrementReadReceipt on an id that is not in
\* the store creates no counter.
CountersBelongToMessages ==
    \A id \in DOMAIN readReceiptCounts : readReceiptCounts[id] > 0 => Has(id)

\* the stored objects found from `ref` by following reply lists for at most
\* `fuel` steps, `ref` itself not included unless a reply list leads back
RECURSIVE Descendants(_, _)
Descendants(ref, fuel) ==
    IF fuel = 0 THEN {}
    ELSE Range(heap[ref].replies)
           \cup UNION {Descendants(r, fuel - 1) : r \in Range(heap[ref].replies)}

\* the places <<parent, position>> of reply lists that hold `ref`
Places(ref) ==
    {place \in (1..Len(heap)) \X (1..Len(heap)) :
        /\ place[2] <= Len(heap[place[1]].replies)
        /\ heap[place[1]].replies[place[2]] = ref}

\* the recursive reads of the thread scenario
RecursiveReads == {"getThreadDepth", "searchMessages", "getMessageThread"}

\* the reply lists form a forest
Forest ==
    /\ \A ref \in 1..Len(heap) : ref \notin Descendants(ref, Len(heap))
    /\ \A ref \in 1..Len(heap) : Cardinality(Places(ref)) <= 1

\* a step leaves id, author, room and parent of every message as they were
IdentityKept ==
    \A ref \in 1..Len(heap) :
        ref <= Len(heap') =>
            /\ heap'[ref].id = heap[ref].id
            /\ heap'[ref].username = heap[ref].username
            /\ heap'[ref].room = heap[ref].room
            /\ heap'[ref].parentId = heap[ref].parentId

\* C39: the reply structure is a forest (no message is its own ancestor and
\* each message is in at most one reply list), id, author, room and parentId
\* of a message never change, and therefore getThreadDepth, searchMessages
\* and getMessageThread return instead of recursing without end.
RepliesFormForest ==
    /\ [](Forest /\ (sync.op \in RecursiveReads => ~sync.threw))
    /\ [][IdentityKept]_vars

\* C33: an addMessage, editMessage or deleteMessage that throws, in its
\* precondition checks or inside its critical section (a failed checkRep or
\* a missing parent included), leaves the global index, the room index and
\* every message's fields and reply list as they were before the call.
ThrowKeepsState ==
    [][ret' \in Thrown => UNCHANGED <<messages, messagesByRoom, heap>>]_vars

\* C36: every message searchMessages(keyword, room) returns has its room
\* field equal to the room argument, a reply whose room is not that of its
\* parent included.
SearchStaysInRoom ==
    (sync.op = "searchMessages" /\ ~sync.threw) =>
        \A i \in 1..Len(sync.value) : heap[sync.value[i]].room = sync.arg[2]

\* position of `ref` in a listing, 0 when it is not listed
Position(listing, ref) ==
    IF ref \in Range(listing)
    THEN CHOOSE i \in 1..Len(listing) : listing[i] = ref
    ELSE 0

\* `a` is listed before `b`
Precedes(listing, a, b) ==
    /\ Position(listing, a) > 0
    /\ Position(listing, a) < Position(listing, b)

\* every two messages listed in `before` and in `after`, the first of which
\* is one of `fixed`, are in the same order in both
OrderKept(before, after, fixed) ==
    \A i, j \in 1..Len(before) :
        (/\ i < j
         /\ before[i] \in fixed
         /\ before[i] \in Range(after)
         /\ before[j] \in Range(after))
        => Precedes(after, before[i], before[j])

\* the stored objects the step does not edit
Unedited ==
    {r \in 1..Len(heap) : r <= Len(heap') /\ heap'[r].editHistory = heap[r].editHistory}

\* C38 as stated: when a precedes b in getMessagesForRoom(room), a precedes
\* b in every later result in which both appear, whatever edits happen in
\* between: no step turns the order of two listed messages round.
RoomOrderStable ==
    [][\A room \in TwoRooms :
          \A before \in {GetMessagesForRoom(room)} :
             \A after \in {GetMessagesForRoom(room)'} :
                OrderKept(before, after, 1..Len(heap))]_vars

\* C38: when a precedes b in getMessagesForRoom(room), a precedes b in every
\* later result in which both appear for as long as a is not edited: an edit
\* refreshes the timestamp the listing is sorted by, so that the edited
\* message moves behind the messages written before the edit, and no other
\* step turns the order of two listed messages round.
RoomOrderStableUntilEdited ==
    [][\A room \in TwoRooms :
          \A before \in {GetMessagesForRoom(room)} :
             \A after \in {GetMessagesForRoom(room)'} :
                OrderKept(before, after, Unedited)]_vars

\* C38 witness: a listing in which a message stands behind one that was
\* written after it, an edit having moved it there
MovedByEdit ==
    /\ sync.op = "getMessagesForRoom"
    /\ \E i, j \in 1..Len(sync.value) :
          /\ i < j
          /\ sync.value[i] > sync.value[j]
          /\ heap[sync.value[j]].edited

\* C34: for every id generateId produces, parse('/delete ' + id) has type
\* delete and the id as its only argument and passes validate, and
\* parse('/edit ' + id + ' x') has the id as its first argument.
IdsSurviveGrammar ==
    /\ sync.op = "parse" =>
          \A id \in GeneratedIds :
             /\ sync.arg[1] = DeleteCommand(id) =>
                   (sync.value.type = "delete" /\ sync.value.args = <<id>>)
             /\ sync.arg[1] = EditCommand(id) =>
                   (sync.value.args # <<>> /\ sync.value.args[1] = id)
    /\ (sync.op = "validate" /\ sync.arg[1].type = "delete") => sync.value

\* the enabled rules of the engine whose condition holds for the arguments
\* of the evaluate call just made, in the order of the rule map
Hit ==
    SelectSeq(rules, LAMBDA rule :
        /\ rule.enabled
        /\ EvaluateRule(Parsed(rule.condition)[1], sync.arg[1], sync.arg[2]))

\* C35: every element of the list evaluate returns is one of mute, ban,
\* delete, warn and flag, and is the action named after 'then' in the
\* condition string of the admitted rule that triggered it.
EvaluateReturnsThenAction ==
    sync.op = "evaluate" =>
        /\ Len(sync.value) = Len(Hit)
        /\ \A k \in 1..Len(sync.value) :
              /\ \E a \in ValidActions : Spelling(a) = sync.value[k]
              /\ sync.value[k] = Parsed(Hit[k].condition)[1].action

\* the emits are one error event, sent to this socket alone
OnlyErrorTo(emits, socket) ==
    /\ Len(emits) = 1
    /\ emits[1].to = "socket"
    /\ emits[1].target = socket
    /\ emits[1].event = "error"

\* C31: messageEdited is emitted only by the step in which editMessage
\* returned a message and messageDeleted only by the step in which
\* deleteMessage returned true; when the call throws, in its precondition
\* checks or in its critical section, or returns null or false, the handler
\* emits one error event to the requesting socket, nothing to the room, and
\* ends (nothing waits on the call any more).
BroadcastFollowsSuccess ==
    [][/\ \A k \in 1..Len(event'.emits) :
             /\ event'.emits[k].event = "messageEdited" =>
                   (event'.on = "resume" /\ event'.data = "edit" /\ ret' = "ok")
             /\ event'.emits[k].event = "messageDeleted" =>
                   (event'.on = "resume" /\ event'.data = "delete" /\ ret' = "true")
       /\ \A c \in Calls :
             (/\ Completes(c)
              /\ calls[c].op \in {"edit", "delete"}
              /\ ret' \in Thrown \cup {"null", "false"})
             => /\ OnlyErrorTo(event'.emits, continuations[c].socket)
                /\ continuations'[c] = NoContinuation
       /\ (event'.on = "chatMessage" /\ ret' = "Precondition")
             => /\ OnlyErrorTo(event'.emits, event'.socket)
                /\ continuations' = continuations]_vars

\* C31 witness: an edit of a deleted message has just thrown in the store
\* and the requesting socket alone was told
EditFailureTold ==
    /\ event.on = "resume"
    /\ event.data = "edit"
    /\ ret = "Precondition"
    /\ OnlyErrorTo(event.emits, event.socket)
    /\ \E id \in DOMAIN messages : heap[messages[id]].deleted

\* the step is a handler of the server handing call c to the message store,
\* with arguments the store will accept when its critical section runs next
Stores(c) ==
    /\ calls[c].pc = "idle"
    /\ calls'[c].pc # "idle"
    /\ \/ calls'[c].op = "add"
       \/ /\ calls'[c].op = "edit"
          /\ EditVerdict(calls'[c].id, calls'[c].username) = "go"

\* C37: every text the server hands to the store to become the text of a
\* message (a plain chat message, the text of a /reply, the new text of an
\* /edit) does not trigger the 'delete' action of the moderation engine with
\* the rules of that time.
StoredTextModerated ==
    [][\A c \in Calls :
          Stores(c) => ~Blocked(Evaluate(rules, Spelling(calls'[c].text),
                                         Spelling(calls'[c].username)))]_vars

\* C32: every mutating call that has been started, whether it took the lock
\* at once or is waiting for it, eventually completes, by a return or by a
\* throw: no caller waits for ever.
NoStarvation ==
    \A c \in Calls : (calls[c].pc # "idle") ~> (calls[c].pc = "idle")

\* C32 witness: the lock has been released by a critical section that threw
\* and a caller that was passed over is still waiting for its timer
WaiterDue ==
    \E c \in Calls : calls[c].pc = "waiting" /\ ~lock /\ ret \in Thrown

====
